---- MODULE Spec2Model ----
(***************************************************************************)
(* Model of the hair-guide core of the Hair-curve-tool: the guide set      *)
(* (HairGuides.cpp), the constraint solver (Physics.cpp), the spatial      *)
(* index (Bvh.cpp) and the scene operations that drive them (Scene.cpp,    *)
(* Serialization.cpp).                                                     *)
(*                                                                         *)
(* Numbers.  The program computes in 32-bit floats; the model computes in  *)
(* fixed point.  A length is an integer number of units (12 units = 0.3 m), *)
(* a unit vector                                                           *)
(* has components scaled by UnitOne, a barycentric weight is scaled by     *)
(* BaryOne and a factor in [0,1] (damping, stiffness, friction) by         *)
(* FracOne.  Every division rounds to nearest (RDiv), as a float division  *)
(* does.  A quantity below the resolution (1e-3f .. 1e-12f) is 0, so the   *)
(* test `x < 1e-8f` reads `x < Tiny`, and glm::max(1e-6f, x) reads         *)
(* Max(Tiny, x): the smallest positive length stands for all of them.      *)
(* A non-finite float (NaN or Inf) is the value NaN; it propagates through *)
(* arithmetic and makes every ordered comparison false.                    *)
(*                                                                         *)
(* Time.  The accumulator of Scene::simulate is kept as the 32-bit float   *)
(* it is.  A time is an integer number of 2^-30 s: every float in          *)
(* [2^-7 s, 2^-3 s) is such a number, and so is every multiple of 2^-30 s  *)
(* below 2^-7 s.  fadd and fsub round the exact sum and difference to the  *)
(* nearest float, ties to even (IEEE 754), so fl(1/120) is FixedDt and     *)
(* fl(1/15) is MaxFrameDt, bit for bit.  The solver, which only scales     *)
(* lengths by dt, converts it to ticks of 1/240 s.                         *)
(***************************************************************************)
EXTENDS Integers, Sequences, FiniteSets, TLC

VARIABLES
    mesh,          \* Scene::m_mesh: NoMesh or [addr, pos, tris]
    meshVersion,   \* Scene::m_meshVersion
    guides,        \* Scene::m_guides: m_curves, m_selected, m_activeCurve
    gs,            \* Scene::m_guideSettings
    gravityHeld,   \* Scene::m_gravityOverrideHeld
    drag,          \* Scene::m_dragging, m_dragCurve, m_dragVert
    accumulator,   \* static accumulator of Scene::simulate, in 2^-30 s
    sim,           \* position inside Scene::simulate: pc, dt, steps, and
                   \* the accumulator before each step so far (accs)
    cache,         \* statics of Physics::step: cachedMesh, meshBvh
    hist,          \* what the last operation was and what it saw
    budget         \* operations the environment may still start

vars == <<mesh, meshVersion, guides, gs, gravityHeld, drag, accumulator, sim,
          cache, hist, budget>>

----------------------------------------------------------------------------
(* Bounds of the exploration.                                              *)

MaxOps == 4
MaxCurves == 2

----------------------------------------------------------------------------
(* Fixed-point scales and the program's constants.                         *)

NaN == -999999
\* floats beyond the finite range; they compare as numbers do
PosInf == 999998
NegInf == -999998
Tiny == 1
UnitOne == 1024
BaryOne == 12
FracOne == 10
\* the solver's time unit: ticks of 1/240 s, each TickLen times 2^-30 s
TicksPerSecond == 240
TickLen == 4473924

\* fl(1.0f / 120.0f) and fl(1.0f / 15.0f), in 2^-30 s
FixedDt == 8947849
MaxFrameDt == 71582792
MaxStepsPerFrame == 8
MaxReasonableSpeed == 2000
MinCurveSteps == 2
MaxCurveSteps == 256
MinSolverIters == 1
MaxSolverIters == 64
LeafSize == 8
GravityOverrideValue == 2

----------------------------------------------------------------------------
(* Scalars and vectors.                                                    *)

Abs(x) == IF x < 0 THEN -x ELSE x
Min2(a, b) == IF a < b THEN a ELSE b
Max2(a, b) == IF a > b THEN a ELSE b
Clamp(x, lo, hi) == Min2(Max2(x, lo), hi)

RDiv(a, b) ==
    LET s  == IF (a < 0) # (b < 0) THEN -1 ELSE 1
        aa == Abs(a)
        bb == Abs(b)
    IN  s * ((2 * aa + bb) \div (2 * bb))

RECURSIVE SqrtIter(_, _, _)
SqrtIter(n, lo, hi) ==
    IF lo >= hi THEN lo
    ELSE LET mid == (lo + hi + 1) \div 2
         IN  IF mid * mid <= n THEN SqrtIter(n, mid, hi)
             ELSE SqrtIter(n, lo, mid - 1)

\* the spacing of the 32-bit floats around x, in 2^-30 s (24-bit mantissa:
\* 1 below 2^24, doubling with each binade)
Ulp(x) ==
    IF x < 16777216 THEN 1 ELSE IF x < 33554432 THEN 2
    ELSE IF x < 67108864 THEN 4 ELSE IF x < 134217728 THEN 8 ELSE 16

\* x rounded to a multiple of q, ties to the even multiple
roundTo(x, q) ==
    IF 2 * (x % q) < q THEN x - (x % q)
    ELSE IF 2 * (x % q) > q THEN x - (x % q) + q
    ELSE IF ((x - (x % q)) \div q) % 2 = 0 THEN x - (x % q)
    ELSE x - (x % q) + q

\* float addition and subtraction of times x, y >= 0 with x - y >= 0
fround(x) == roundTo(x, Ulp(x))
fadd(x, y) == fround(x + y)
fsub(x, y) == fround(x - y)

\* a time in the solver's ticks
ticks(dt) == RDiv(dt, TickLen)

sqrtRound(n, r) == IF n - r * r > r THEN r + 1 ELSE r
Sqrt(n) == sqrtRound(n, SqrtIter(n, 0, Min2(n, 46340)))

IsFinite(s) == s # NaN
Lt(a, b) == IsFinite(a) /\ IsFinite(b) /\ a < b
Le(a, b) == IsFinite(a) /\ IsFinite(b) /\ a <= b
SAdd(a, b) == IF IsFinite(a) /\ IsFinite(b) THEN a + b ELSE NaN
SSub(a, b) == IF IsFinite(a) /\ IsFinite(b) THEN a - b ELSE NaN

NaNVec == <<NaN, NaN, NaN>>
ZeroVec == <<0, 0, 0>>
VFinite(v) == IsFinite(v[1]) /\ IsFinite(v[2]) /\ IsFinite(v[3])
VAdd(a, b) ==
    IF VFinite(a) /\ VFinite(b)
    THEN <<a[1] + b[1], a[2] + b[2], a[3] + b[3]>> ELSE NaNVec
VSub(a, b) ==
    IF VFinite(a) /\ VFinite(b)
    THEN <<a[1] - b[1], a[2] - b[2], a[3] - b[3]>> ELSE NaNVec
VNeg(a) == VSub(ZeroVec, a)
\* v * num / den, one rounding per component
VMulDiv(v, num, den) ==
    IF VFinite(v) /\ IsFinite(num) /\ IsFinite(den) /\ den # 0
    THEN <<RDiv(v[1] * num, den), RDiv(v[2] * num, den), RDiv(v[3] * num, den)>>
    ELSE NaNVec
Dot(a, b) ==
    IF VFinite(a) /\ VFinite(b)
    THEN a[1] * b[1] + a[2] * b[2] + a[3] * b[3] ELSE NaN
Cross(a, b) ==
    IF VFinite(a) /\ VFinite(b)
    THEN <<a[2] * b[3] - a[3] * b[2],
           a[3] * b[1] - a[1] * b[3],
           a[1] * b[2] - a[2] * b[1]>>
    ELSE NaNVec
Length(v) == IF VFinite(v) THEN Sqrt(Dot(v, v)) ELSE NaN
\* glm::normalize: v * inversesqrt(dot(v, v)); the zero vector gives NaN
normalizeBy(v, len) ==
    IF IsFinite(len) /\ len > 0 THEN VMulDiv(v, UnitOne, len) ELSE NaNVec
Normalize(v) == normalizeBy(v, Length(v))

VMin(a, b) == <<Min2(a[1], b[1]), Min2(a[2], b[2]), Min2(a[3], b[3])>>
VMax(a, b) == <<Max2(a[1], b[1]), Max2(a[2], b[2]), Max2(a[3], b[3])>>

Range(s) == {s[i] : i \in DOMAIN s}
RemoveAt(s, i) == [k \in 1..(Len(s) - 1) |-> IF k < i THEN s[k] ELSE s[k + 1]]

----------------------------------------------------------------------------
(* Meshes.  A mesh is Mesh::m_positions and Mesh::m_indices, the latter as *)
(* a sequence of triangles <<i0, i1, i2>> of 0-based vertex indices; addr  *)
(* is the address of the Mesh object (0 for the null pointer).             *)

NoMesh == [addr |-> 0, pos |-> <<>>, tris |-> <<>>]
HasMesh(m) == m.addr # 0
TriCount(m) == Len(m.tris)
\* pos[i] and ind[tri * 3 + k] with the code's 0-based indices
Pos(m, i) == m.pos[i + 1]
Ind(m, tri, k) == m.tris[tri + 1][k + 1]

\* What Mesh::loadFromObj leaves in the mesh for each file the model knows:
\* a closed tetrahedron, a single open triangle, and a file without faces.
HeadPos == << <<0, 0, 0>>, <<16, 0, 0>>, <<0, 0, 16>>, <<0, -16, 0>> >>
HeadTris == << <<0, 2, 1>>, <<0, 1, 3>>, <<0, 3, 2>>, <<1, 2, 3>> >>
PatchPos == << <<0, 0, 0>>, <<16, 0, 0>>, <<0, 0, 16>> >>
PatchTris == << <<0, 2, 1>> >>
MeshFiles == {"head", "patch", "nofaces"}
\* "low" is the tetrahedron moved down, below the head
LowPos == << <<0, -24, 0>>, <<16, -24, 0>>, <<0, -24, 16>>, <<0, -40, 0>> >>
FilePos(f) ==
    CASE f = "head" -> HeadPos [] f = "patch" -> PatchPos [] f = "low" -> LowPos
      [] OTHER -> PatchPos
FileTris(f) ==
    CASE f = "head" -> HeadTris [] f = "patch" -> PatchTris [] f = "low" -> HeadTris
      [] OTHER -> <<>>
\* Mesh::loadFromObj returns !m_positions.empty() && !m_indices.empty()
loadFromObj(f) == Len(FilePos(f)) > 0 /\ Len(FileTris(f)) > 0

Addrs == {1, 2, 3}

----------------------------------------------------------------------------
(* Bvh.cpp                                                                 *)

\* closestPointOnTriangle once d1 .. d6 are known
closestFromDots(a, b, c, ab, ac, d1, d2, d3, d4, d5, d6) ==
    LET vc == d1 * d4 - d3 * d2
        vb == d5 * d2 - d1 * d6
        va == d3 * d6 - d5 * d4
    IN  IF d1 <= 0 /\ d2 <= 0 THEN a
        ELSE IF d3 >= 0 /\ d4 <= d3 THEN b
        ELSE IF vc <= 0 /\ d1 >= 0 /\ d3 <= 0
             THEN VAdd(a, VMulDiv(ab, d1, d1 - d3))
        ELSE IF d6 >= 0 /\ d5 <= d6 THEN c
        ELSE IF vb <= 0 /\ d2 >= 0 /\ d6 <= 0
             THEN VAdd(a, VMulDiv(ac, d2, d2 - d6))
        ELSE IF va <= 0 /\ (d4 - d3) >= 0 /\ (d5 - d6) >= 0
             THEN VAdd(b, VMulDiv(VSub(c, b), d4 - d3, (d4 - d3) + (d5 - d6)))
        ELSE VAdd(a, VAdd(VMulDiv(ab, vb, va + vb + vc),
                          VMulDiv(ac, vc, va + vb + vc)))

\* closestPointOnTriangle once ab, ac, ap, bp, cp are known
closestFromEdges(a, b, c, ab, ac, ap, bp, cp) ==
    closestFromDots(a, b, c, ab, ac, Dot(ab, ap), Dot(ac, ap), Dot(ab, bp),
                    Dot(ac, bp), Dot(ab, cp), Dot(ac, cp))

closestPointOnTriangle(p, a, b, c) ==
    IF ~VFinite(p) THEN NaNVec
    ELSE closestFromEdges(a, b, c, VSub(b, a), VSub(c, a), VSub(p, a),
                          VSub(p, b), VSub(p, c))

boundsOf(p0, p1, p2) ==
    [min |-> VMin(p0, VMin(p1, p2)), max |-> VMax(p0, VMax(p1, p2))]
triBounds(m, tri) ==
    boundsOf(Pos(m, Ind(m, tri, 0)), Pos(m, Ind(m, tri, 1)), Pos(m, Ind(m, tri, 2)))

\* twice the centre of the triangle's box along an axis (the code compares
\* 0.5f * (tmin + tmax); doubling both sides keeps the order)
centerOf(box, axis) == box.min[axis] + box.max[axis]
triCenter2(m, tri, axis) == centerOf(triBounds(m, tri), axis)

\* the least and the greatest of a non-empty set of coordinates: what the
\* running glm::min / glm::max of the loop hold after its last round
leastOf(S) == CHOOSE x \in S : \A y \in S : x <= y
greatestOf(S) == CHOOSE x \in S : \A y \in S : x >= y

\* the box of the first triangle of the range alone
boxOfFirst(m, tri, first, count) ==
    IF count = 0 THEN [min |-> <<PosInf, PosInf, PosInf>>,
                       max |-> <<NegInf, NegInf, NegInf>>]
    ELSE triBounds(m, tri[first + 1])

\* the loop of buildNode over triIndices[first .. first + count): bmin and
\* bmax start at +inf and -inf and take in every triangle's box
boxOf(m, tri, first, count) ==
    IF count = 0 THEN [min |-> <<PosInf, PosInf, PosInf>>,
                       max |-> <<NegInf, NegInf, NegInf>>]
    ELSE [min |-> [k \in 1..3 |->
                     leastOf({triBounds(m, tri[first + i]).min[k] : i \in 1..count})],
          max |-> [k \in 1..3 |->
                     greatestOf({triBounds(m, tri[first + i]).max[k] : i \in 1..count})]]

\* the place (1-based) of the i-th of the centres c when they are ordered
rankByCenter(c, i) ==
    1 + Cardinality({j \in DOMAIN c : c[j] < c[i] \/ (c[j] = c[i] /\ j > i)})
\* s ordered by centre along the axis
SortByCenter(m, axis, s) ==
    LET c == [j \in 1..Len(s) |-> triCenter2(m, s[j], axis)]
        place == [i \in 1..Len(s) |-> rankByCenter(c, i)]
    IN  [r \in 1..Len(s) |-> s[CHOOSE i \in 1..Len(s) : place[i] = r]]

placeSorted(tri, first, count, sorted) ==
    [k \in 1..Len(tri) |->
        IF k > first /\ k <= first + count THEN sorted[k - first] ELSE tri[k]]

\* std::nth_element on triIndices[first .. first + count): the range is left
\* partitioned around its median; a full sort is one such arrangement.
nthElement(m, tri, first, count, axis) ==
    placeSorted(tri, first, count,
                SortByCenter(m, axis, SubSeq(tri, first + 1, first + count)))

\* the split axis of buildNode
splitAxis(extent) ==
    LET ax0 == IF extent[2] > extent[1] THEN 2 ELSE 1
    IN  IF extent[3] > extent[ax0] THEN 3 ELSE ax0

RECURSIVE buildNode(_, _, _, _)

\* buildNode after both children are built: link them to the node
linkChildren(b4, nodeIndex, left, right) ==
    [b4 EXCEPT !.nodes[nodeIndex + 1] =
        [@ EXCEPT !.left = left, !.right = right, !.triCount = 0]]

\* buildNode after the left child is built
buildRight(m, b3, first, count, nodeIndex, left) ==
    linkChildren(buildNode(m, b3, first + count \div 2, count - count \div 2),
                 nodeIndex, left, Len(b3.nodes))

\* buildNode after the range is partitioned
buildLeft(m, b2, first, count, nodeIndex) ==
    buildRight(m, buildNode(m, b2, first, count \div 2), first, count,
               nodeIndex, Len(b2.nodes))

\* buildNode once the box of the range is known
buildSplit(m, b, first, count, box) ==
    LET node == [bmin |-> box.min, bmax |-> box.max, left |-> -1, right |-> -1,
                 firstTri |-> first, triCount |-> count]
    IN  IF count <= LeafSize THEN [b EXCEPT !.nodes = Append(b.nodes, node)]
        ELSE buildLeft(m, [b EXCEPT !.nodes = Append(b.nodes, node),
                                    !.tri = nthElement(m, b.tri, first, count,
                                               splitAxis(VSub(box.max, box.min)))],
                       first, count, Len(b.nodes))

\* a buildNode that pushes no node for an empty range
buildNodeUnlessEmpty(m, b, first, count) ==
    IF count = 0 THEN b
    ELSE buildSplit(m, b, first, count, boxOf(m, b.tri, first, count))

\* the tree after buildNode(first, count); nodes are 0-based in the code and
\* stored at index + 1
buildNode(m, b, first, count) ==
    buildSplit(m, b, first, count, boxOf(m, b.tri, first, count))

\* Bvh::build; m_mesh is kept as the address of the mesh
EmptyBvh == [mesh |-> 0, nodes |-> <<>>, tri |-> <<>>]
build(m) ==
    buildNode(m, [mesh |-> m.addr, nodes |-> <<>>,
                  tri |-> [i \in 1..TriCount(m) |-> i - 1]], 0, TriCount(m))

aabbDist1(x, lo, hi) == IF x < lo THEN lo - x ELSE IF x > hi THEN x - hi ELSE 0
sumSq(dx, dy, dz) == dx * dx + dy * dy + dz * dz
\* the squared distance to the farthest corner of the box
aabbFarSq(p, bmin, bmax) ==
    IF VFinite(p) /\ VFinite(bmin) /\ VFinite(bmax)
    THEN sumSq(Max2(Abs(p[1] - bmin[1]), Abs(p[1] - bmax[1])),
               Max2(Abs(p[2] - bmin[2]), Abs(p[2] - bmax[2])),
               Max2(Abs(p[3] - bmin[3]), Abs(p[3] - bmax[3])))
    ELSE NaN
\* Bvh::aabbDistSq; the box of an empty range is (+Inf, -Inf)
aabbDistSq(p, bmin, bmax) ==
    IF VFinite(p) /\ bmin[1] = PosInf THEN PosInf
    ELSE IF VFinite(p) /\ VFinite(bmin) /\ VFinite(bmax)
    THEN sumSq(aabbDist1(p[1], bmin[1], bmax[1]), aabbDist1(p[2], bmin[2], bmax[2]),
               aabbDist1(p[3], bmin[3], bmax[3]))
    ELSE NaN

\* For the slab test: 1.0f / 0.0f is +Inf, and a finite value times Inf is
\* +-Inf, or NaN when the value is 0.
FMulInv(x, rdk) ==
    IF rdk # 0 THEN x * rdk
    ELSE IF x > 0 THEN PosInf ELSE IF x < 0 THEN NegInf ELSE NaN
\* glm::min(x, y) is (y < x) ? y : x and glm::max(x, y) is (x < y) ? y : x
FMin(x, y) == IF Lt(y, x) THEN y ELSE x
FMax(x, y) == IF Lt(x, y) THEN y ELSE x

\* one slab of rayAabb: the interval <<tmin, tmax>> after it
slab(t, t1, t2) == <<FMax(t[1], FMin(t1, t2)), FMin(t[2], FMax(t1, t2))>>
firstSlab(t1, t2) == <<FMin(t1, t2), FMax(t1, t2)>>
slabHit(t) == Le(t[1], t[2]) /\ Le(0, t[2])

\* Bvh::rayAabb for a direction with components in {0, 1} (rdInv is 1 or Inf)
rayAabb(ro, rd, bmin, bmax) ==
    /\ VFinite(ro) /\ VFinite(bmin) /\ VFinite(bmax)
    /\ slabHit(slab(slab(firstSlab(FMulInv(bmin[1] - ro[1], rd[1]),
                                   FMulInv(bmax[1] - ro[1], rd[1])),
                         FMulInv(bmin[2] - ro[2], rd[2]),
                         FMulInv(bmax[2] - ro[2], rd[2])),
                    FMulInv(bmin[3] - ro[3], rd[3]),
                    FMulInv(bmax[3] - ro[3], rd[3])))

\* the children a walk pushes
children(n) ==
    (IF n.left >= 0 THEN <<n.left>> ELSE <<>>) \o (IF n.right >= 0 THEN <<n.right>> ELSE <<>>)
leafTris(b, n) == [i \in 1..n.triCount |-> b.tri[n.firstTri + i]]
Pop(stack) == SubSeq(stack, 1, Len(stack) - 1)

RECURSIVE raycastWalk(_, _, _, _)

\* one node of the loop of Bvh::raycast
raycastNode(b, ro, rd, rest, n) ==
    IF ~rayAabb(ro, rd, n.bmin, n.bmax) THEN raycastWalk(b, ro, rd, rest)
    ELSE IF n.triCount > 0 THEN leafTris(b, n) \o raycastWalk(b, ro, rd, rest)
    ELSE raycastWalk(b, ro, rd, rest \o children(n))

\* the loop of Bvh::raycast: the triangles handed to the callback, in order
raycastWalk(b, ro, rd, stack) ==
    IF stack = <<>> THEN <<>>
    ELSE raycastNode(b, ro, rd, Pop(stack), b.nodes[stack[Len(stack)] + 1])

raycast(b, ro, rd) ==
    IF b.nodes = <<>> THEN <<>> ELSE raycastWalk(b, ro, rd, <<0>>)

\* the update of the best triangle in Bvh::nearestTriangle
betterOf(best, tri, cp, dd, a, bb, c) ==
    IF Lt(dd, best.distSq)
    THEN [best EXCEPT !.distSq = dd, !.tri = tri, !.cp = cp,
                      !.n = Normalize(Cross(VSub(bb, a), VSub(c, a)))]
    ELSE best
distSqTo(p, cp) == Dot(VSub(p, cp), VSub(p, cp))
nearestOf(best, tri, p, cp, a, bb, c) == betterOf(best, tri, cp, distSqTo(p, cp), a, bb, c)
nearestTri(best, tri, p, a, bb, c) ==
    nearestOf(best, tri, p, closestPointOnTriangle(p, a, bb, c), a, bb, c)

RECURSIVE nearestLeaf(_, _, _, _, _, _)

\* one triangle of a leaf; a triangle index the mesh does not have is read
\* out of bounds (ub)
nearestLeafTri(m, b, p, n, i, best, tri) ==
    IF tri >= TriCount(m)
    THEN nearestLeaf(m, b, p, n, i + 1, [best EXCEPT !.ub = TRUE])
    ELSE nearestLeaf(m, b, p, n, i + 1,
            nearestTri(best, tri, p, Pos(m, Ind(m, tri, 0)), Pos(m, Ind(m, tri, 1)),
                       Pos(m, Ind(m, tri, 2))))

\* the loop over the triangles of a leaf in Bvh::nearestTriangle
nearestLeaf(m, b, p, n, i, best) ==
    IF i >= n.triCount THEN best
    ELSE nearestLeafTri(m, b, p, n, i, best, b.tri[n.firstTri + i + 1])

RECURSIVE nearestWalk(_, _, _, _, _)

\* one node of the loop of Bvh::nearestTriangle
nearestNode(m, b, p, rest, best, n) ==
    IF Lt(best.distSq, aabbDistSq(p, n.bmin, n.bmax)) THEN nearestWalk(m, b, p, rest, best)
    ELSE IF n.triCount > 0
    THEN nearestWalk(m, b, p, rest, nearestLeaf(m, b, p, n, 0, best))
    ELSE nearestWalk(m, b, p, rest \o children(n), best)

nearestWalk(m, b, p, stack, best) ==
    IF stack = <<>> THEN best
    ELSE nearestNode(m, b, p, Pop(stack), best, b.nodes[stack[Len(stack)] + 1])

\* the default maxDist of Bvh.h, 1e30f: its square is +Inf
DefaultMaxDist == PosInf
nearestNone(maxDist) ==
    [distSq |-> IF maxDist = PosInf THEN PosInf ELSE maxDist * maxDist,
     tri |-> -1, cp |-> ZeroVec,
     n |-> <<0, UnitOne, 0>>, ub |-> FALSE]
nearestResult(best) ==
    [found |-> best.tri >= 0, tri |-> best.tri, cp |-> best.cp, n |-> best.n,
     ub |-> best.ub]

\* Bvh::nearestTriangle; m is the mesh object m_mesh points to.  The result
\* is [found, tri, cp, n, ub].
nearestTriangle(m, b, p, maxDist) ==
    nearestResult(IF b.nodes = <<>> \/ b.mesh = 0 \/ m.pos = <<>> \/ m.tris = <<>>
                  THEN nearestNone(maxDist)
                  ELSE nearestWalk(m, b, p, <<0>>, nearestNone(maxDist)))

----------------------------------------------------------------------------
(* Physics.cpp: the inside test                                            *)

\* x / det < 0, > 1, <= 0 without dividing
RatNeg(x, det) == (x < 0 /\ det > 0) \/ (x > 0 /\ det < 0)
RatAboveOne(x, det) == IF det > 0 THEN x > det ELSE x < det

\* rayTriMT once det and the numerators of u, v, t are known
rayTriTest(det, un, vn, tn) ==
    /\ ~(Abs(det) < Tiny)
    /\ ~(RatNeg(un, det) \/ RatAboveOne(un, det))
    /\ ~(RatNeg(vn, det) \/ RatAboveOne(un + vn, det))
    /\ ~(tn = 0 \/ RatNeg(tn, det))
rayTriFrom(rd, e1, e2, pv, s, q) ==
    rayTriTest(Dot(e1, pv), Dot(s, pv), Dot(rd, q), Dot(e2, q))
rayTriEdges(rd, e1, e2, s) == rayTriFrom(rd, e1, e2, Cross(rd, e2), s, Cross(s, e1))
rayTriMT(ro, rd, a, b, c) ==
    VFinite(ro) /\ rayTriEdges(rd, VSub(b, a), VSub(c, a), VSub(ro, a))

\* the callback of isInsideMeshRayParity for one triangle
countHit(m, ro, rd, tri, r) ==
    IF tri >= TriCount(m) THEN [r EXCEPT !.ub = TRUE]
    ELSE IF rayTriMT(ro, rd, Pos(m, Ind(m, tri, 0)), Pos(m, Ind(m, tri, 1)),
                     Pos(m, Ind(m, tri, 2)))
         THEN [r EXCEPT !.count = @ + 1]
         ELSE r

RECURSIVE CountHits(_, _, _, _)
CountHits(m, ro, rd, cand) ==
    IF cand = <<>> THEN [count |-> 0, ub |-> FALSE]
    ELSE countHit(m, ro, rd, Head(cand), CountHits(m, ro, rd, Tail(cand)))

parityOf(r) == [inside |-> r.count % 2 = 1, ub |-> r.ub]
\* the offset 1e-5f of the ray origin is below the resolution
isInsideMeshRayParity(m, b, p) ==
    parityOf(CountHits(m, p, <<1, 0, 0>>, raycast(b, p, <<1, 0, 0>>)))

----------------------------------------------------------------------------
(* HairGuides.cpp.  A guide set g is [curves, selected, active]; a curve   *)
(* is [id, root |-> [triIndex, bary], points, prevPoints, segmentRestLen]. *)
(* id is not in the program: it names the curve object, so that a curve    *)
(* can be followed when removals shift the indices.                        *)

EmptyGuides == [curves |-> <<>>, selected |-> <<>>, active |-> -1]
curveCount(g) == Len(g.curves)

\* HairGuideSet::clear
clear(g) == EmptyGuides

BaryDefault == <<BaryOne, 0, 0>>

\* a non-finite bary is replaced by (1, 0, 0)
baryOrDefault(bary) == IF VFinite(bary) THEN bary ELSE BaryDefault
\* glm::clamp(b, 0, 1)
clampBary(b) ==
    <<Clamp(b[1], 0, BaryOne), Clamp(b[2], 0, BaryOne), Clamp(b[3], 0, BaryOne)>>
\* b /= s, or (1, 0, 0) when s <= 1e-8f
scaleBary(b, s) == IF s < Tiny THEN BaryDefault ELSE VMulDiv(b, BaryOne, s)
renormBary(b) == scaleBary(b, b[1] + b[2] + b[3])

\* the clamp and renormalisation of addCurveOnMesh
normalizeBary(bary) == renormBary(clampBary(baryOrDefault(bary)))

\* pos[i0] * b.x + pos[i1] * b.y + pos[i2] * b.z
baryPoint(p0, p1, p2, b) ==
    IF VFinite(p0) /\ VFinite(p1) /\ VFinite(p2) /\ VFinite(b)
    THEN <<RDiv(p0[1] * b[1] + p1[1] * b[2] + p2[1] * b[3], BaryOne),
           RDiv(p0[2] * b[1] + p1[2] * b[2] + p2[2] * b[3], BaryOne),
           RDiv(p0[3] * b[1] + p1[3] * b[2] + p2[3] * b[3], BaryOne)>>
    ELSE NaNVec

triValid(m, tri) == tri >= 0 /\ tri < TriCount(m)
vertsValid(m, tri) ==
    /\ Ind(m, tri, 0) < Len(m.pos)
    /\ Ind(m, tri, 1) < Len(m.pos)
    /\ Ind(m, tri, 2) < Len(m.pos)

\* HairGuides.cpp:23-46, the binding addCurveOnMesh stores
rootOf(m, triIndex, bary) ==
    IF triValid(m, triIndex)
    THEN [triIndex |-> triIndex, bary |-> normalizeBary(bary)]
    ELSE [triIndex |-> -1, bary |-> BaryDefault]

\* HairGuides.cpp:60-72, the growth direction
dirOrUp(dir0, normalLen) ==
    IF normalLen < Tiny \/ ~VFinite(dir0) THEN <<0, UnitOne, 0>> ELSE dir0
dirFor(hitNormal, normalLen) ==
    dirOrUp(VMulDiv(hitNormal, UnitOne, normalLen), normalLen)
curveDir(hitNormal) == dirFor(hitNormal, Length(hitNormal))

\* HairGuides.cpp:80-90, the position the root is placed at
meshRootPos(m, triIndex, bary, hitPos) ==
    IF triValid(m, triIndex) /\ vertsValid(m, triIndex)
    THEN baryPoint(Pos(m, Ind(m, triIndex, 0)), Pos(m, Ind(m, triIndex, 1)),
                   Pos(m, Ind(m, triIndex, 2)), bary)
    ELSE hitPos

\* HairGuides.cpp:92-97, the straight line of points.  With an infinite
\* len the product len * t is NaN at t = 0 and infinite after it, so no
\* point is finite.
linePoints(rootPos, dir, len, steps) ==
    [i \in 1..steps |->
        IF len = PosInf THEN NaNVec
        ELSE VAdd(rootPos, VMulDiv(dir, len * (i - 1), (steps - 1) * UnitOne))]

\* HairGuides.cpp:74-75: glm::max(0.001f, defaultLength) is 0.001f for a
\* NaN and infinite for +inf; segmentRestLen = len / (steps - 1)
curveLen(settings) == Max2(Tiny, settings.defaultLength)
restLenOf(len, steps) == IF len = PosInf THEN PosInf ELSE RDiv(len, steps - 1)

curveOf(id, root, pts, rest) ==
    [id |-> id, root |-> root, points |-> pts, prevPoints |-> pts,
     segmentRestLen |-> rest]

\* the curve addCurveOnMesh builds, once the binding is validated
newCurve(m, triIndex, root, hitPos, hitNormal, steps, len, id) ==
    curveOf(id, root,
            linePoints(meshRootPos(m, triIndex, root.bary, hitPos),
                       curveDir(hitNormal), len, steps),
            restLenOf(len, steps))

\* HairGuides.cpp:103-105
pushCurve(g, c) ==
    [ret |-> Len(g.curves),
     g |-> [g EXCEPT !.curves = Append(g.curves, c),
                     !.selected = Append(g.selected, 0)]]

\* HairGuideSet::addCurveOnMesh: [ret, g]
addCurveOnMesh(g, m, triIndex, bary, hitPos, hitNormal, settings, id) ==
    IF ~VFinite(hitPos) \/ ~VFinite(hitNormal) THEN [ret |-> -1, g |-> g]
    ELSE pushCurve(g, newCurve(m, triIndex, rootOf(m, triIndex, bary), hitPos,
                               hitNormal,
                               Clamp(settings.defaultSteps, MinCurveSteps, MaxCurveSteps),
                               curveLen(settings), id))

\* moveControlPoint without the test of worldPos
moveControlPointUnchecked(g, curveIdx, vertIdx, worldPos) ==
    IF curveIdx < 0 \/ curveIdx >= Len(g.curves) THEN g
    ELSE IF vertIdx <= 0 \/ vertIdx >= Len(g.curves[curveIdx + 1].points) THEN g
    ELSE [g EXCEPT !.curves[curveIdx + 1].points[vertIdx + 1] = worldPos,
                   !.curves[curveIdx + 1].prevPoints[vertIdx + 1] = worldPos]

\* HairGuideSet::moveControlPoint
moveControlPoint(g, curveIdx, vertIdx, worldPos) ==
    IF curveIdx < 0 \/ curveIdx >= Len(g.curves) THEN g
    ELSE IF vertIdx <= 0 \/ vertIdx >= Len(g.curves[curveIdx + 1].points) THEN g
    ELSE IF ~VFinite(worldPos) THEN g
    ELSE [g EXCEPT !.curves[curveIdx + 1].points[vertIdx + 1] = worldPos,
                   !.curves[curveIdx + 1].prevPoints[vertIdx + 1] = worldPos]

\* the first selected index, or -1
firstSelected(sel) ==
    IF \E i \in 1..Len(sel) : sel[i] # 0
    THEN (CHOOSE i \in 1..Len(sel) : sel[i] # 0 /\ \A k \in 1..(i - 1) : sel[k] = 0) - 1
    ELSE -1

\* removeCurve leaving m_activeCurve as it was
removeCurveStaleActive(g, curveIdx) ==
    IF curveIdx < 0 \/ curveIdx >= Len(g.curves) THEN g
    ELSE [curves |-> RemoveAt(g.curves, curveIdx + 1),
          selected |-> RemoveAt(g.selected, curveIdx + 1),
          active |-> g.active]

\* removeCurve erasing the curve and not its selection flag
removeCurveKeepingFlag(g, curveIdx) ==
    IF curveIdx < 0 \/ curveIdx >= Len(g.curves) THEN g
    ELSE [curves |-> RemoveAt(g.curves, curveIdx + 1),
          selected |-> g.selected,
          active |-> IF g.active = curveIdx THEN firstSelected(g.selected)
                     ELSE IF g.active > curveIdx THEN g.active - 1
                     ELSE g.active]

\* HairGuideSet::removeCurve
removeCurve(g, curveIdx) ==
    IF curveIdx < 0 \/ curveIdx >= Len(g.curves) THEN g
    ELSE LET sel == IF curveIdx < Len(g.selected)
                    THEN RemoveAt(g.selected, curveIdx + 1) ELSE g.selected
         IN  [curves |-> RemoveAt(g.curves, curveIdx + 1),
              selected |-> sel,
              active |-> IF g.active = curveIdx THEN firstSelected(sel)
                         ELSE IF g.active > curveIdx THEN g.active - 1
                         ELSE g.active]

RECURSIVE removeCurves(_, _)
\* HairGuideSet::removeCurves
removeCurves(g, idxs) ==
    IF idxs = <<>> THEN g ELSE removeCurves(removeCurve(g, Head(idxs)), Tail(idxs))

\* HairGuideSet::isCurveSelected answering yes for every curve
isCurveSelectedAlways(g, curveIdx) == curveIdx < Len(g.curves)

\* HairGuideSet::isCurveSelected
isCurveSelected(g, curveIdx) ==
    IF curveIdx >= Len(g.selected) THEN FALSE ELSE g.selected[curveIdx + 1] # 0

\* HairGuideSet::deselectAll
deselectAll(g) ==
    [g EXCEPT !.selected = [i \in 1..Len(g.selected) |-> 0], !.active = -1]

\* HairGuideSet::selectCurve
selectCurve(g, curveIdx, additive) ==
    IF curveIdx < 0 \/ curveIdx >= Len(g.curves) THEN g
    ELSE LET g1 == IF additive THEN g ELSE deselectAll(g)
         IN  [g1 EXCEPT !.selected[curveIdx + 1] = 1, !.active = curveIdx]

\* HairGuideSet::toggleCurveSelected
toggleCurveSelected(g, curveIdx) ==
    IF curveIdx < 0 \/ curveIdx >= Len(g.curves) THEN g
    ELSE LET s   == IF g.selected[curveIdx + 1] # 0 THEN 0 ELSE 1
             sel == [g.selected EXCEPT ![curveIdx + 1] = s]
         IN  [g EXCEPT !.selected = sel,
                       !.active = IF s # 0 THEN curveIdx
                                  ELSE IF g.active = curveIdx THEN firstSelected(sel)
                                  ELSE g.active]

\* HairGuideSet::selectedCurves, ascending
RECURSIVE selectedFrom(_, _)
selectedFrom(sel, i) ==
    IF i > Len(sel) THEN <<>>
    ELSE (IF sel[i] # 0 THEN <<i - 1>> ELSE <<>>) \o selectedFrom(sel, i + 1)
selectedCurves(g) == selectedFrom(g.selected, 1)

Reverse(s) == [i \in 1..Len(s) |-> s[Len(s) + 1 - i]]

\* HairGuides.cpp:430-443, the root once its position p is evaluated
pinRootAt(c, p) ==
    IF ~VFinite(p) THEN [c EXCEPT !.root.triIndex = -1]
    ELSE IF c.points = <<>> THEN c
    ELSE [c EXCEPT !.points[1] = p, !.prevPoints[1] = p]

\* HairGuides.cpp:411-413, the reads ind[ti * 3 + k]: the three vertex
\* indices, and whether the reads left the index array (oob)
triRead(m, ti) ==
    IF ti >= 0 /\ ti < TriCount(m) THEN [oob |-> FALSE, v |-> m.tris[ti + 1]]
    ELSE [oob |-> TRUE, v |-> <<0, 0, 0>>]

\* HairGuides.cpp:414-443, once the vertex indices are read
pinFromTri(m, c, t) ==
    IF t.v[1] >= Len(m.pos) \/ t.v[2] >= Len(m.pos) \/ t.v[3] >= Len(m.pos)
    THEN [c |-> [c EXCEPT !.root.triIndex = -1], oob |-> t.oob]
    ELSE [c |-> pinRootAt(c, baryPoint(Pos(m, t.v[1]), Pos(m, t.v[2]), Pos(m, t.v[3]),
                                       renormBary(baryOrDefault(c.root.bary)))),
          oob |-> t.oob]

\* the body of the loop without the range check of HairGuides.cpp:405-410
updatePinnedRootUnchecked(m, c) ==
    IF c.root.triIndex < 0 THEN [c |-> c, oob |-> FALSE]
    ELSE pinFromTri(m, c, triRead(m, c.root.triIndex))

\* the loop body binding a curve to triangle 0 where the code unpins it
updatePinnedRootRebinding(m, c) ==
    IF c.root.triIndex < 0 THEN [c |-> c, oob |-> FALSE]
    ELSE IF c.root.triIndex >= TriCount(m)
    THEN [c |-> [c EXCEPT !.root.triIndex = 0], oob |-> FALSE]
    ELSE pinFromTri(m, c, triRead(m, c.root.triIndex))

\* the body of the loop of HairGuideSet::updatePinnedRootsFromMesh: the
\* curve after it, and whether it read out of bounds
updatePinnedRoot(m, c) ==
    IF c.root.triIndex < 0 THEN [c |-> c, oob |-> FALSE]
    ELSE IF c.root.triIndex >= TriCount(m)
    THEN [c |-> [c EXCEPT !.root.triIndex = -1], oob |-> FALSE]
    ELSE pinFromTri(m, c, triRead(m, c.root.triIndex))

\* HairGuideSet::updatePinnedRootsFromMesh
updatePinnedRootsFromMesh(g, m) ==
    IF m.pos = <<>> \/ m.tris = <<>> THEN g
    ELSE [g EXCEPT !.curves =
             [i \in 1..Len(g.curves) |-> updatePinnedRoot(m, g.curves[i]).c]]

\* whether HairGuideSet::updatePinnedRootsFromMesh read out of bounds
rootsOob(g, m) ==
    /\ m.pos # <<>> /\ m.tris # <<>>
    /\ \E i \in 1..Len(g.curves) : updatePinnedRoot(m, g.curves[i]).oob

\* HairGuides.cpp:480-486: the vector cum, cum[0] = 0
cumNext(cum, pts, n) ==
    Append(cum, SAdd(cum[n - 1], Length(VSub(pts[n], pts[n - 1]))))
RECURSIVE cumUpTo(_, _)
cumUpTo(pts, n) == IF n = 1 THEN <<0>> ELSE cumNext(cumUpTo(pts, n - 1), pts, n)
cumLens(pts) == cumUpTo(pts, Len(pts))

\* HairGuides.cpp:465-467: the first hi >= 1 with cum[hi] >= s (0-based)
RECURSIVE findSegment(_, _, _)
findSegment(cum, s, hi) ==
    IF hi < Len(cum) /\ Lt(cum[hi + 1], s) THEN findSegment(cum, s, hi + 1) ELSE hi

\* HairGuides.cpp:468-473: glm::mix between the ends of segment hi - 1 .. hi
mixAt(pts, cum, s, hi) ==
    IF hi >= Len(cum) THEN pts[Len(pts)]
    ELSE IF Lt(cum[hi], cum[hi + 1])
    THEN VAdd(pts[hi], VMulDiv(VSub(pts[hi + 1], pts[hi]),
                               Clamp(s - cum[hi], 0, cum[hi + 1] - cum[hi]),
                               cum[hi + 1] - cum[hi]))
    ELSE pts[hi]

\* resampleOnPolyline
resampleOnPolyline(pts, cum, s) ==
    IF Len(pts) < 2 THEN (IF pts = <<>> THEN ZeroVec ELSE pts[1])
    ELSE IF Le(s, 0) THEN pts[1]
    ELSE IF Le(cum[Len(cum)], Tiny - 1) THEN pts[1]
    ELSE IF Le(cum[Len(cum)], s) THEN pts[Len(pts)]
    ELSE mixAt(pts, cum, s, findSegment(cum, s, 1))

\* HairGuides.cpp:489-494: the direction of the last segment, or up
lastDirOf(d, dl) == IF Lt(Tiny - 1, dl) THEN VMulDiv(d, UnitOne, dl) ELSE <<0, UnitOne, 0>>

\* HairGuides.cpp:498-512, one new point at arc length targetS.  An infinite
\* newLength makes targetS NaN at i = 0 and infinite after it: the point is
\* not finite.
resamplePoint(oldPts, cum, oldLen, lastDir, targetS) ==
    IF targetS = PosInf THEN NaNVec
    ELSE IF Lt(Tiny - 1, oldLen)
    THEN (IF Le(targetS, oldLen) THEN resampleOnPolyline(oldPts, cum, targetS)
          ELSE VAdd(oldPts[Len(oldPts)], VMulDiv(lastDir, targetS - oldLen, UnitOne)))
    ELSE VAdd(oldPts[1], VMulDiv(lastDir, targetS, UnitOne))

\* newLength * t with t = i / (newSteps - 1)
targetAt(newLength, i, newSteps) ==
    IF newLength = PosInf THEN PosInf ELSE RDiv(newLength * i, newSteps - 1)

\* HairGuides.cpp:496-515: the new points, the root kept as it is
resampledPoints(oldPts, cum, lastDir, newLength, newSteps) ==
    [k \in 1..newSteps |->
        IF k = 1 THEN oldPts[1]
        ELSE resamplePoint(oldPts, cum, cum[Len(cum)], lastDir,
                           targetAt(newLength, k - 1, newSteps))]

\* resampleCurveInPlace once newSteps and newLength are clamped
resampleClamped(c, newLength, newSteps) ==
    IF Len(c.points) < 2 THEN c
    ELSE LET pts == resampledPoints(c.points, cumLens(c.points),
                        lastDirOf(VSub(c.points[Len(c.points)],
                                       c.points[Len(c.points) - 1]),
                                  Length(VSub(c.points[Len(c.points)],
                                              c.points[Len(c.points) - 1]))),
                        newLength, newSteps)
         IN  [c EXCEPT !.points = pts, !.prevPoints = pts,
                       !.segmentRestLen = restLenOf(newLength, newSteps)]

\* resampleCurveInPlace without the assignment c.prevPoints = c.points
resampleKeepingPrev(c, newLength, newSteps) ==
    [resampleClamped(c, Max2(Tiny, newLength),
                     Clamp(newSteps, MinCurveSteps, MaxCurveSteps))
       EXCEPT !.prevPoints = c.prevPoints]

\* resampleCurveInPlace
resampleCurveInPlace(c, newLength, newSteps) ==
    resampleClamped(c, Max2(Tiny, newLength),
                    Clamp(newSteps, MinCurveSteps, MaxCurveSteps))

\* the resampling applied to every curve, selected or not
applyLengthStepsToAll(g, newLength, newSteps) ==
    [g EXCEPT !.curves =
        [i \in 1..Len(g.curves) |->
            resampleCurveInPlace(g.curves[i], newLength, newSteps)]]

\* HairGuideSet::applyLengthStepsToSelected
applyLengthStepsToSelected(g, newLength, newSteps) ==
    [g EXCEPT !.curves =
        [i \in 1..Len(g.curves) |->
            IF isCurveSelected(g, i - 1)
            THEN resampleCurveInPlace(g.curves[i], newLength, newSteps)
            ELSE g.curves[i]]]

----------------------------------------------------------------------------
(* Physics.cpp: the solver                                                 *)

\* solveDistance: the two points after the correction is applied
applyCorrection(p0, p1, corr, w0, w1) ==
    [p0 |-> VAdd(p0, VMulDiv(corr, w0, 1)), p1 |-> VAdd(p1, VMulDiv(corr, -w1, 1))]

\* solveDistance once d and len are known.  The correction
\* (C / wsum) * (d / len) * stiffness is rounded once.
solveLen(p0, p1, d, len, restLen, w0, w1, stiffness) ==
    IF Lt(len, Tiny) THEN [p0 |-> p0, p1 |-> p1]
    ELSE IF w0 + w1 <= 0 THEN [p0 |-> p0, p1 |-> p1]
    ELSE applyCorrection(p0, p1,
            IF IsFinite(len)
            THEN VMulDiv(d, (len - restLen) * Clamp(stiffness, 0, FracOne),
                         len * (w0 + w1) * FracOne)
            ELSE NaNVec,
            w0, w1)
solveDelta(p0, p1, d, restLen, w0, w1, stiffness) ==
    solveLen(p0, p1, d, Length(d), restLen, w0, w1, stiffness)

\* solveDistance: [p0, p1]
solveDistance(p0, p1, restLen, w0, w1, stiffness) ==
    solveDelta(p0, p1, VSub(p1, p0), restLen, w0, w1, stiffness)

\* one point of the integration loops: x + (x - prev) * damping + acc * dt * dt
verletPoint(x, prev, dt, acc, damping) ==
    VAdd(VAdd(x, VMulDiv(VSub(x, prev), damping, FracOne)),
         VMulDiv(acc, ticks(dt) * ticks(dt), 1))

\* integrateVerlet; pinnedIndex is 0-based
integrateVerlet(c, dt, acc, pinnedIndex, damping) ==
    [c EXCEPT
       !.points = [i \in 1..Len(c.points) |->
                     IF i - 1 = pinnedIndex THEN c.points[i]
                     ELSE verletPoint(c.points[i], c.prevPoints[i], dt, acc, damping)],
       !.prevPoints = [i \in 1..Len(c.prevPoints) |->
                     IF i - 1 = pinnedIndex \/ i > Len(c.points) THEN c.prevPoints[i]
                     ELSE c.points[i]]]

\* integrateVerlet2Pinned
integrateVerlet2Pinned(c, dt, acc, pinnedA, pinnedB, damping) ==
    [c EXCEPT
       !.points = [i \in 1..Len(c.points) |->
                     IF i - 1 = pinnedA \/ i - 1 = pinnedB THEN c.points[i]
                     ELSE verletPoint(c.points[i], c.prevPoints[i], dt, acc, damping)],
       !.prevPoints = [i \in 1..Len(c.prevPoints) |->
                     IF i - 1 = pinnedA \/ i - 1 = pinnedB \/ i > Len(c.points)
                     THEN c.prevPoints[i]
                     ELSE c.points[i]]]

\* Physics.cpp:136-138
sizedPrev(c) ==
    IF Len(c.prevPoints) # Len(c.points) THEN [c EXCEPT !.prevPoints = c.points] ELSE c

\* Physics.cpp:146, the test on one displacement
corruptDisp(dp, maxDisp) == ~VFinite(dp) \/ Lt(maxDisp, Length(dp))
killWithin(c, maxDisp) ==
    [c EXCEPT !.prevPoints = [i \in 1..Len(c.points) |->
        IF corruptDisp(VSub(c.points[i], c.prevPoints[i]), maxDisp)
        THEN c.points[i] ELSE c.prevPoints[i]]]

\* the velocity guard testing only the length of the displacement
killOverSpeedOnly(c, dt) ==
    [c EXCEPT !.prevPoints = [i \in 1..Len(c.points) |->
        IF Lt(RDiv(MaxReasonableSpeed * ticks(dt), TicksPerSecond),
              Length(VSub(c.points[i], c.prevPoints[i])))
        THEN c.points[i] ELSE c.prevPoints[i]]]

\* Physics.cpp:140-149, the velocity guard
killCorruptVelocities(c, dt) ==
    killWithin(c, RDiv(MaxReasonableSpeed * ticks(dt), TicksPerSecond))

\* Physics.cpp:152-162
hasInvalid(c) == \E i \in 1..Len(c.points) : ~VFinite(c.points[i])

\* the weight of the first point of a constraint starting at i
weightFirst(i, pinnedDrag) ==
    IF pinnedDrag >= 0 /\ i = pinnedDrag THEN 0 ELSE IF i = 0 THEN 0 ELSE 1
\* the weight of its second point k
weightSecond(k, pinnedDrag) == IF pinnedDrag >= 0 /\ k = pinnedDrag THEN 0 ELSE 1

\* the two points a constraint wrote
setPair(pts, i, k, r) == [pts EXCEPT ![i + 1] = r.p0, ![k + 1] = r.p1]

\* one constraint between points i and k (0-based) with weights w0 and w1
constrainPair(pts, i, k, restLen, pinnedDrag, w0, w1, stiffness) ==
    IF pinnedDrag >= 0 /\ w0 + w1 <= 0 THEN pts
    ELSE setPair(pts, i, k,
                 solveDistance(pts[i + 1], pts[k + 1], restLen, w0, w1, stiffness))

RECURSIVE stretchPass(_, _, _, _)
\* Physics.cpp:193-203, from segment i (0-based) on; pts is c.points
stretchPass(pts, i, rest, pinnedDrag) ==
    IF i + 1 >= Len(pts) THEN pts
    ELSE stretchPass(constrainPair(pts, i, i + 1, rest, pinnedDrag,
                                   weightFirst(i, pinnedDrag),
                                   weightSecond(i + 1, pinnedDrag), FracOne),
                     i + 1, rest, pinnedDrag)

RECURSIVE bendPass(_, _, _, _, _)
\* Physics.cpp:207-216
bendPass(pts, i, rest, pinnedDrag, bendStiffness) ==
    IF i + 2 >= Len(pts) THEN pts
    ELSE bendPass(constrainPair(pts, i, i + 2, rest * 2, pinnedDrag,
                                weightFirst(i, pinnedDrag),
                                weightSecond(i + 2, pinnedDrag), bendStiffness),
                  i + 1, rest, pinnedDrag, bendStiffness)

\* Physics.cpp:243-248: the point and its previous position are stored
collideStore(c, i, moved, vNew, ub) ==
    [c |-> [c EXCEPT !.points[i + 1] = moved, !.prevPoints[i + 1] = VSub(moved, vNew)],
     ub |-> ub]

\* glm::dot(v, nrm) * nrm
normalPart(v, nrm) ==
    IF VFinite(v) /\ VFinite(nrm)
    THEN VMulDiv(nrm, Dot(v, nrm), UnitOne * UnitOne) ELSE NaNVec

\* Physics.cpp:243-247 once v is known
collideVel(c, i, settings, moved, nrm, v, ub) ==
    collideStore(c, i, moved,
                 VMulDiv(VSub(v, normalPart(v, nrm)),
                         FracOne - Clamp(settings.collisionFriction, 0, FracOne),
                         FracOne),
                 ub)

\* Physics.cpp:240-242: nrm /= nl when nl > 1e-8f
unitOf(v, nl) == IF Le(Tiny, nl) THEN VMulDiv(v, UnitOne, nl) ELSE v

collideRespond(c, i, settings, moved, nrm, ub) ==
    collideVel(c, i, settings, moved, nrm, VSub(moved, c.prevPoints[i + 1]), ub)

\* Physics.cpp:237-242 once pushDir is known
collideMove(c, i, settings, p, pushDir, amount, ub) ==
    collideRespond(c, i, settings, VAdd(p, VMulDiv(pushDir, amount, UnitOne)),
                   unitOf(pushDir, Length(pushDir)), ub)

\* Physics.cpp:230-236
signedDir(u, inside) == IF inside THEN VNeg(u) ELSE u
pushDirOf(d, dist, inside, n) ==
    IF Le(Tiny, dist) THEN signedDir(Normalize(d), inside) ELSE n

\* Physics.cpp:229-248 once the inside test has answered
collidePush(c, i, settings, thickness, p, near, d, dist, par) ==
    collideMove(c, i, settings, p, pushDirOf(d, dist, par.inside, near.n),
                thickness - dist, near.ub \/ par.ub)

\* Physics.cpp:228 once dist is known
collideDist(c, i, m, b, settings, thickness, p, near, d, dist) ==
    IF ~Lt(dist, thickness) THEN [c |-> c, ub |-> near.ub]
    ELSE collidePush(c, i, settings, thickness, p, near, d, dist,
                     isInsideMeshRayParity(m, b, p))

collideDelta(c, i, m, b, settings, thickness, p, near, d) ==
    collideDist(c, i, m, b, settings, thickness, p, near, d, Length(d))

\* Physics.cpp:225-226 once nearestTriangle has answered
collideNear(c, i, m, b, settings, thickness, p, near) ==
    IF ~near.found THEN [c |-> c, ub |-> near.ub]
    ELSE collideDelta(c, i, m, b, settings, thickness, p, near, VSub(p, near.cp))

collideAt(c, i, m, b, settings, thickness, p) ==
    collideNear(c, i, m, b, settings, thickness, p,
                nearestTriangle(m, b, p, thickness * 2))

\* Physics.cpp:223-249, one point i (0-based) of the mesh collision:
\* [c, ub]
collidePoint(c, i, m, b, settings) ==
    collideAt(c, i, m, b, settings, Max2(Tiny, settings.collisionThickness),
              c.points[i + 1])

orUb(r, ub) == [c |-> r.c, ub |-> r.ub \/ ub]

RECURSIVE meshPass(_, _, _, _, _, _)

meshNext(r, i, m, b, settings, ub) == meshPass(r.c, i + 1, m, b, settings, ub \/ r.ub)

\* Physics.cpp:222-250, from point i on
meshPass(c, i, m, b, settings, ub) ==
    IF i >= Len(c.points) THEN [c |-> c, ub |-> ub]
    ELSE meshNext(collidePoint(c, i, m, b, settings), i, m, b, settings, ub)

\* Physics.cpp:206-217
bendIf(s1, rest, pinnedDrag, bendStiffness) ==
    IF bendStiffness > 0 THEN bendPass(s1, 0, rest, pinnedDrag, bendStiffness) ELSE s1

\* Physics.cpp:193-217, the stretch and bend constraints of one iteration
constraintPass(c, rest, pinnedDrag, bendStiffness) ==
    [c EXCEPT !.points = bendIf(stretchPass(c.points, 0, rest, pinnedDrag), rest,
                                pinnedDrag, bendStiffness)]

\* Physics.cpp:220-251, the mesh collision of one iteration
collisionPass(c, m, b, settings) ==
    IF settings.enableMeshCollision THEN meshPass(c, 1, m, b, settings, FALSE)
    ELSE [c |-> c, ub |-> FALSE]

RECURSIVE relax(_, _, _, _, _, _, _, _)

relaxNext(r, it, iters, rest, pinnedDrag, m, b, settings) ==
    orUb(relax(r.c, it + 1, iters, rest, pinnedDrag, m, b, settings), r.ub)

\* Physics.cpp:191-252, iterations it .. iters - 1: [c, ub]
relax(c, it, iters, rest, pinnedDrag, m, b, settings) ==
    IF it >= iters THEN [c |-> c, ub |-> FALSE]
    ELSE relaxNext(collisionPass(constraintPass(c, rest, pinnedDrag,
                                                Clamp(settings.stiffness, 0, FracOne)),
                                 m, b, settings),
                   it, iters, rest, pinnedDrag, m, b, settings)

\* Scene::effectiveGravityForCurve (mirror mode is off: no mirror peers)
effectiveGravityForCurve(g, settings, held, curveIdx) ==
    IF ~held THEN settings.gravity
    ELSE IF g.active >= 0
         THEN (IF curveIdx = g.active THEN GravityOverrideValue ELSE settings.gravity)
         ELSE GravityOverrideValue

\* Physics.cpp:174-177
pinPrev(c, pinnedDrag) ==
    IF pinnedDrag >= 0 /\ pinnedDrag < Len(c.points)
    THEN [c EXCEPT !.prevPoints[pinnedDrag + 1] = c.points[pinnedDrag + 1]]
    ELSE c

\* Physics.cpp:174-180 with no pinned root
integrateFreeRoot(c, dt, acc, pinnedDrag, dampingFactor) ==
    IF pinnedDrag >= 0
    THEN integrateVerlet2Pinned(c, dt, acc, -1, pinnedDrag, dampingFactor)
    ELSE integrateVerlet(c, dt, acc, -1, dampingFactor)

\* Physics.cpp:174-180
integrate(c, dt, acc, pinnedDrag, dampingFactor) ==
    IF pinnedDrag >= 0
    THEN integrateVerlet2Pinned(c, dt, acc, 0, pinnedDrag, dampingFactor)
    ELSE integrateVerlet(c, dt, acc, 0, dampingFactor)

\* Physics.cpp:184-188
withRest(c, settings) ==
    IF c.segmentRestLen <= 0
    THEN [c EXCEPT !.segmentRestLen =
              RDiv(settings.defaultLength, Max2(2, Len(c.points)) - 1)]
    ELSE c

\* Physics.cpp:183-252
relaxCurve(c, pinnedDrag, m, b, settings) ==
    relax(c, 0, Clamp(settings.solverIterations, MinSolverIters, MaxSolverIters),
          c.segmentRestLen, pinnedDrag, m, b, settings)

\* Physics.cpp:171-252 once pinnedDrag is known; an index past the end of
\* the curve is an out-of-bounds write (ub)
stepPinned(c, m, b, settings, gravity, dt, pinnedDrag) ==
    orUb(relaxCurve(withRest(integrate(pinPrev(c, pinnedDrag), dt, <<0, -gravity, 0>>,
                                       pinnedDrag, Clamp(settings.damping, 0, FracOne)),
                             settings),
                    pinnedDrag, m, b, settings),
         pinnedDrag >= Len(c.points))

\* Physics.cpp:171-252, the curve ci after the velocity guard and the check
\* for invalid points: [c, ub]
stepCurve(c, ci, m, b, settings, gravity, dr, dt) ==
    stepPinned(c, m, b, settings, gravity, dt,
               IF dr.dragging /\ ci = dr.curve THEN dr.vert ELSE -1)

RECURSIVE curveLoop(_, _, _, _, _, _, _, _)

\* the curve is written back and the loop goes on
curveDone(st, ci, m, b, settings, held, dr, dt, id, r) ==
    curveLoop([g |-> [st.g EXCEPT !.curves[ci + 1] = r.c],
               ub |-> st.ub \/ r.ub, rootsOob |-> st.rootsOob,
               trace |-> st.trace \o << <<"integrate", id>>, <<"relaxed", id>> >>],
              ci + 1, m, b, settings, held, dr, dt)

\* Physics.cpp:152-252, after the velocity guard; the removal of a curve
\* with an invalid point is followed by ci++
curveGuarded(st, ci, m, b, settings, held, dr, dt, gravity, c) ==
    IF hasInvalid(c)
    THEN curveLoop([st EXCEPT !.g = removeCurve(st.g, ci),
                              !.trace = Append(st.trace, <<"remove", c.id>>)],
                   ci + 1, m, b, settings, held, dr, dt)
    ELSE curveDone(st, ci, m, b, settings, held, dr, dt, c.id,
                   stepCurve(c, ci, m, b, settings, gravity, dr, dt))

\* Physics.cpp:131-252, a selected curve
curveBody(st, ci, m, b, settings, held, dr, dt, gravity, c) ==
    IF Len(c.points) < 2 THEN curveLoop(st, ci + 1, m, b, settings, held, dr, dt)
    ELSE curveGuarded(st, ci, m, b, settings, held, dr, dt, gravity,
                      killCorruptVelocities(sizedPrev(c), dt))

\* Physics.cpp:122-272, from index ci on; st is [g, ub, rootsOob, trace]
curveLoop(st, ci, m, b, settings, held, dr, dt) ==
    IF ci >= curveCount(st.g) THEN st
    ELSE IF ~isCurveSelected(st.g, ci)
         THEN curveLoop(st, ci + 1, m, b, settings, held, dr, dt)
    ELSE curveBody(st, ci, m, b, settings, held, dr, dt,
                   Max2(0, effectiveGravityForCurve(st.g, settings, held, ci)),
                   st.g.curves[ci + 1])

\* the two points moved the same way: cb.points[ib] += and
\* ca.points[ia] += n * (0.5f * pen)
pushSameWay(ca, cb, ia, ib, half) ==
    [a |-> [ca EXCEPT !.points[ia + 1] = VAdd(ca.points[ia + 1], half)],
     b |-> [cb EXCEPT !.points[ib + 1] = VAdd(cb.points[ib + 1], half)],
     moved |-> TRUE]

\* Physics.cpp:297-299, the two points once the half penetration is known
pushHalf(ca, cb, ia, ib, half) ==
    [a |-> [ca EXCEPT !.points[ia + 1] = VSub(ca.points[ia + 1], half)],
     b |-> [cb EXCEPT !.points[ib + 1] = VAdd(cb.points[ib + 1], half)],
     moved |-> TRUE]

\* n * (0.5f * pen) with n = d / dist and pen = r - dist
halfPen(d, r, dist) == VMulDiv(d, r - dist, 2 * dist)

\* Physics.cpp:294-299 once d and d2 are known
pushDist(ca, cb, ia, ib, r, d, d2) ==
    IF Lt(d2, Tiny) \/ Lt(r * r, d2) THEN [a |-> ca, b |-> cb, moved |-> FALSE]
    ELSE pushHalf(ca, cb, ia, ib,
                  IF IsFinite(d2) THEN halfPen(d, r, Sqrt(d2)) ELSE NaNVec)
pushDelta(ca, cb, ia, ib, r, d) == pushDist(ca, cb, ia, ib, r, d, Dot(d, d))

\* Physics.cpp:292-299, one pair of points: the two curves after it
pushApart(ca, cb, ia, ib, r) ==
    pushDelta(ca, cb, ia, ib, r, VSub(cb.points[ib + 1], ca.points[ia + 1]))

RECURSIVE pairPoints(_, _, _, _, _, _)

pairNext(q, ia, ib, r, moved) == pairPoints(q.a, q.b, ia, ib + 1, r, moved \/ q.moved)

\* Physics.cpp:290-301, the loops over ia and ib, from (ia, ib) on
pairPoints(ca, cb, ia, ib, r, moved) ==
    IF ia >= Len(ca.points) THEN [a |-> ca, b |-> cb, moved |-> moved]
    ELSE IF ib >= Len(cb.points) THEN pairPoints(ca, cb, ia + 1, 1, r, moved)
    ELSE pairNext(pushApart(ca, cb, ia, ib, r), ia, ib, r, moved)

RECURSIVE pairLoop(_, _, _, _, _)

pairDone(g, a, b, r, moved, q) ==
    pairLoop([g EXCEPT !.curves[a + 1] = q.a, !.curves[b + 1] = q.b],
             a, b + 1, r, moved \/ q.moved)

\* Physics.cpp:284-302, the loops over a and b, from (a, b) on: [g, moved]
pairLoop(g, a, b, r, moved) ==
    IF a >= curveCount(g) THEN [g |-> g, moved |-> moved]
    ELSE IF ~isCurveSelected(g, a) \/ b >= curveCount(g)
         THEN pairLoop(g, a + 1, a + 2, r, moved)
    ELSE IF ~isCurveSelected(g, b) THEN pairLoop(g, a, b + 1, r, moved)
    ELSE pairDone(g, a, b, r, moved,
                  pairPoints(g.curves[a + 1], g.curves[b + 1], 1, 1, r, FALSE))

\* Physics::applyCurveCurveCollision: [g, moved]
applyCurveCurveCollision(g, settings) ==
    IF ~settings.enableCurveCollision THEN [g |-> g, moved |-> FALSE]
    ELSE IF curveCount(g) < 2 THEN [g |-> g, moved |-> FALSE]
    ELSE pairLoop(g, 0, 1, Max2(Tiny, settings.collisionThickness), FALSE)

\* Physics.cpp:274 and the result of the step
stepResult(st, g1, cc) ==
    [g |-> cc.g, ub |-> st.ub, rootsOob |-> st.rootsOob,
     trace |-> IF cc.moved THEN Append(st.trace, <<"curvecurve", 0>>) ELSE st.trace,
     afterRoots |-> g1, afterLoop |-> st.g]

\* Physics.cpp:274, after the curve loop
stepCollide(st, g1, settings) ==
    stepResult(st, g1, applyCurveCurveCollision(st.g, settings))

\* the curve loop run on the outcome cc of a curve-curve collision that
\* came first
loopAfterCollision(cc, g1, oob, m, b, settings, held, dr, dt) ==
    stepResult(curveLoop([g |-> cc.g, ub |-> oob, rootsOob |-> oob,
                          trace |-> IF cc.moved
                                    THEN << <<"roots", 0>>, <<"curvecurve", 0>> >>
                                    ELSE << <<"roots", 0>> >>],
                         0, m, b, settings, held, dr, dt),
               g1, [g |-> cc.g, moved |-> FALSE])

\* Physics.cpp:116-274 with the curve-curve collision moved before the loop
stepCurveCurveFirst(g1, oob, m, b, settings, held, dr, dt) ==
    loopAfterCollision(applyCurveCurveCollision(g1, settings), g1, oob, m, b,
                       settings, held, dr, dt)

\* Physics.cpp:116-274, after the roots are updated
stepFromRoots(g1, oob, m, b, settings, held, dr, dt) ==
    stepCollide(curveLoop([g |-> g1, ub |-> oob, rootsOob |-> oob,
                           trace |-> << <<"roots", 0>> >>],
                          0, m, b, settings, held, dr, dt),
                g1, settings)

\* Physics::step after its two early returns, with the index b it uses:
\* [g, ub, rootsOob, trace, afterRoots, afterLoop]
stepBody(g, m, b, settings, held, dr, dt) ==
    stepFromRoots(updatePinnedRootsFromMesh(g, m), rootsOob(g, m), m, b, settings,
                  held, dr, dt)

----------------------------------------------------------------------------
(* Settings, scene files and pointer input.  Mirror mode is off and there  *)
(* is one layer throughout.                                                *)

\* Scene::m_guideSettings as Scene::Scene leaves it.  The model is scaled
\* down: the program's 12 steps and 24 iterations are 3 and 2 here.
DefaultSettings ==
    [defaultLength |-> 12, defaultSteps |-> 3, enableSimulation |-> TRUE,
     enableMeshCollision |-> TRUE, enableCurveCollision |-> FALSE,
     enableGpuSolver |-> FALSE, collisionThickness |-> 0,
     collisionFriction |-> FracOne, solverIterations |-> 2, gravity |-> 0,
     damping |-> 9, stiffness |-> 1, dragLerp |-> 4]

\* the guideSettings objects of the scene files
CollideSettings ==
    [defaultLength |-> 8, defaultSteps |-> 3, enableSimulation |-> TRUE,
     enableMeshCollision |-> TRUE, enableCurveCollision |-> TRUE,
     enableGpuSolver |-> FALSE, collisionThickness |-> 3,
     collisionFriction |-> FracOne, solverIterations |-> 2, gravity |-> 0,
     damping |-> 9, stiffness |-> 1, dragLerp |-> FracOne]
FallSettings ==
    [defaultLength |-> 8, defaultSteps |-> 3, enableSimulation |-> TRUE,
     enableMeshCollision |-> TRUE, enableCurveCollision |-> FALSE,
     enableGpuSolver |-> FALSE, collisionThickness |-> 3,
     collisionFriction |-> 5, solverIterations |-> 2, gravity |-> 1,
     damping |-> 9, stiffness |-> 0, dragLerp |-> FracOne]

\* The scene files the model knows.  A file is what Serialization::loadScene
\* reads from it: meshPath, guideSettings and curves (rootTri, rootBary,
\* points).  "pair": two upright guides on the top face of the head, closer
\* to each other than the collision thickness.  "raw": a guide whose
\* rootBary is not normalised and a guide bound to triangle 7.  "moved": a
\* guide saved one unit away from its binding, and a guide whose second
\* point lies within the collision thickness of the head.  "bare": curves
\* without a meshPath.  "lost": a meshPath that does not load.  "still" (read
\* only where the rest length is examined): a guide of two equal points.
SceneFiles == {"pair", "raw", "moved", "bare", "lost"}
FileMeshPath(f) ==
    CASE f = "bare" -> "" [] f = "lost" -> "nofaces" [] OTHER -> "head"
FileSettings(f) ==
    CASE f = "pair" -> CollideSettings [] f = "moved" -> CollideSettings
      [] OTHER -> FallSettings
FileCurves(f) ==
    CASE f = "pair" ->
           << [rootTri |-> 0, rootBary |-> <<6, 3, 3>>,
               points |-> << <<4, 0, 4>>, <<4, 4, 4>>, <<4, 8, 4>> >>],
              [rootTri |-> 0, rootBary |-> <<3, 3, 6>>,
               points |-> << <<8, 0, 4>>, <<6, 4, 4>>, <<6, 8, 4>> >>] >>
      [] f = "raw" ->
           << [rootTri |-> 0, rootBary |-> <<12, 12, 0>>,
               points |-> << <<0, 0, 8>>, <<0, 4, 8>>, <<0, 8, 8>> >>],
              [rootTri |-> 7, rootBary |-> <<12, 0, 0>>,
               points |-> << <<8, 0, 8>>, <<8, 4, 8>>, <<8, 8, 8>> >>] >>
      [] f = "moved" ->
           << [rootTri |-> 0, rootBary |-> <<6, 3, 3>>,
               points |-> << <<5, 0, 4>>, <<5, 4, 4>>, <<5, 8, 4>> >>],
              [rootTri |-> 0, rootBary |-> <<0, 6, 6>>,
               points |-> << <<8, 0, 8>>, <<8, 2, 8>>, <<8, 6, 8>> >>] >>
      [] f = "bare" ->
           << [rootTri |-> 1, rootBary |-> <<4, 4, 4>>,
               points |-> << <<5, -5, 0>>, <<5, -5, -4>> >>] >>
      [] f = "still" ->
           << [rootTri |-> 0, rootBary |-> <<6, 3, 3>>,
               points |-> << <<4, 0, 4>>, <<4, 0, 4>> >>] >>
      [] OTHER -> <<>>

\* What Raycast::raycastMesh reports for the rays the pointer can cast: a
\* hit is a triangle of the mesh and barycentrics (1 - u - v, u, v) inside
\* it; position and normal follow from them.
HitBarys == {<<6, 3, 3>>, <<3, 3, 6>>}
hitPosition(m, tri, bary) ==
    baryPoint(Pos(m, Ind(m, tri, 0)), Pos(m, Ind(m, tri, 1)), Pos(m, Ind(m, tri, 2)), bary)
hitNormalOf(m, tri) ==
    Normalize(Cross(VSub(Pos(m, Ind(m, tri, 1)), Pos(m, Ind(m, tri, 0))),
                    VSub(Pos(m, Ind(m, tri, 2)), Pos(m, Ind(m, tri, 0)))))

\* where the pointer can put the drag target
DragTargets == {<<4, 1, 4>>, <<6, 4, 4>>}
\* the frame times passed to Scene::simulate, in 2^-30 s: a negative one,
\* zero, fl(1/120) less 5 ulp, fl(1/24), and one second
FrameDts == {-1, 0, 8947844, 44739244, 1073741824}

\* the identity given to the next curve object
newId(g) == CHOOSE n \in 1..(Len(g.curves) + 1) :
                \A i \in 1..Len(g.curves) : g.curves[i].id # n

----------------------------------------------------------------------------
(* Scene.cpp and Serialization.cpp                                         *)

NoDrag == [dragging |-> FALSE, curve |-> -1, vert |-> -1]

\* the (curve, vertex) pairs HairGuideSet::pickControlPoint can return with
\* selectedOnly: never a root, never a non-finite point
pickControlPoint(g) ==
    {<<ci, vi>> \in (0..(Len(g.curves) - 1)) \X (1..MaxCurveSteps) :
        /\ isCurveSelected(g, ci)
        /\ vi < Len(g.curves[ci + 1].points)
        /\ VFinite(g.curves[ci + 1].points[vi + 1])}

\* the curves HairGuideSet::pickCurve can return
pickCurve(g) ==
    {ci \in 0..(Len(g.curves) - 1) :
        LET c == g.curves[ci + 1]
        IN  /\ Len(c.points) >= 2
            /\ \E i \in 1..(Len(c.points) - 1) :
                   VFinite(c.points[i]) /\ VFinite(c.points[i + 1])}

\* total polyline length as Scene::tick and loadScene sum it
RECURSIVE polylineLength(_, _)
polylineLength(pts, i) ==
    IF i + 1 > Len(pts) THEN 0
    ELSE SAdd(Length(VSub(pts[i + 1], pts[i])), polylineLength(pts, i + 1))

\* Scene.cpp, Scene::tick: whether a curve is degenerate
degenerate(c) ==
    IF Len(c.points) < 2 THEN 1
    ELSE IF Le(polylineLength(c.points, 1), Tiny - 1) THEN 1
    ELSE 0

\* Scene::tick: the indices it removes, ascending
tickToRemove(g) == selectedFrom([i \in 1..Len(g.curves) |-> degenerate(g.curves[i])], 1)

\* Serialization.cpp:197-205, the rest length of a curve of the file
fileRestLen(pts) ==
    IF Len(pts) >= 2 THEN RDiv(polylineLength(pts, 1), Len(pts) - 1) ELSE 0

\* Serialization.cpp:186-205, the curve read from the file
fileCurve(id, jc) ==
    [id |-> id, root |-> [triIndex |-> jc.rootTri, bary |-> jc.rootBary],
     points |-> jc.points, prevPoints |-> jc.points,
     segmentRestLen |-> fileRestLen(jc.points)]

\* Serialization.cpp:216-217: dst = curve(curveCount() - 1); dst = c.  With
\* an empty list the reference is out of bounds (ub).
overwriteLast(g, jc) ==
    IF Len(g.curves) = 0 THEN [g |-> g, ub |-> TRUE]
    ELSE [g |-> [g EXCEPT !.curves[Len(g.curves)] =
                    fileCurve(g.curves[Len(g.curves)].id, jc)],
          ub |-> FALSE]

\* Serialization.cpp:186-219, one curve of the file: [g, ub]
loadSceneCurve(g, m, settings, jc) ==
    overwriteLast(addCurveOnMesh(g, m, jc.rootTri, jc.rootBary,
                                 IF jc.points = <<>> THEN ZeroVec ELSE jc.points[1],
                                 <<0, UnitOne, 0>>, settings, newId(g)).g,
                  jc)

RECURSIVE loadSceneCurves(_, _, _, _, _)

loadSceneNext(st, r, m, settings, jcs, i) ==
    loadSceneCurves([g |-> r.g, ub |-> st.ub \/ r.ub], m, settings, jcs, i + 1)

\* Serialization.cpp:185-220, the loop over the curves of the file
loadSceneCurves(st, m, settings, jcs, i) ==
    IF i > Len(jcs) THEN st
    ELSE loadSceneNext(st, loadSceneCurve(st.g, m, settings, jcs[i]), m, settings,
                       jcs, i)

----------------------------------------------------------------------------
(* App.cpp: the Length and Steps sliders and the import of curves from a   *)
(* PLY file                                                                *)

\* what the Length and Steps sliders can be set to
SliderLengths == {8, 16}
SliderSteps == {2, 4}

\* What ImportPly::loadCurves reads from the files the model knows.
\* "strand": one upright curve.  "tipfirst": the same curve written tip
\* first, its third vertex flagged as the anchor.  "flat": two vertices in
\* one place.  "dot": a single vertex.
PlyFiles == {"strand", "tipfirst", "flat", "dot"}
PlyCurves(f) ==
    CASE f = "strand" ->
           << [points |-> << <<8, 0, 4>>, <<8, 4, 4>>, <<8, 8, 4>> >>, anchorIndex |-> 0] >>
      [] f = "tipfirst" ->
           << [points |-> << <<4, 8, 4>>, <<4, 4, 4>>, <<4, 0, 4>> >>, anchorIndex |-> 2] >>
      [] f = "flat" ->
           << [points |-> << <<4, 0, 4>>, <<4, 0, 4>> >>, anchorIndex |-> -1] >>
      [] OTHER ->
           << [points |-> << <<4, 0, 4>> >>, anchorIndex |-> -1] >>

\* What Raycast::nearestOnMesh answers for the root of an imported curve:
\* nothing within maxBindDist, or a point of a triangle of the mesh.
NoHit == [hit |-> FALSE, triIndex |-> -1, bary |-> ZeroVec]
PlyHits == {NoHit, [hit |-> TRUE, triIndex |-> 0, bary |-> <<6, 3, 3>>]}

\* App.cpp:794-800: the root is made point 0
plyRootIdx(ic) ==
    IF ic.anchorIndex >= 0 /\ ic.anchorIndex < Len(ic.points) THEN ic.anchorIndex ELSE 0
rotateTo(pts, rootIdx) == SubSeq(pts, rootIdx + 1, Len(pts)) \o SubSeq(pts, 1, rootIdx)

\* App.cpp:769-777: the roots of the curves present before the import; a
\* curve without points is not listed (idx -1)
existingRoots(g) ==
    [i \in 1..Len(g.curves) |->
        IF g.curves[i].points = <<>> THEN [idx |-> -1, root |-> ZeroVec]
        ELSE [idx |-> i - 1, root |-> g.curves[i].points[1]]]

\* App.cpp:824-833: the first listed curve whose root is within dupRootTol
\* of the hit is marked for removal
isDupAt(existing, k, position, tol) ==
    existing[k].idx >= 0 /\ Le(Length(VSub(existing[k].root, position)), tol)
markDup(st, position, tol) ==
    IF \E k \in DOMAIN st.existing : isDupAt(st.existing, k, position, tol)
    THEN LET k == CHOOSE j \in DOMAIN st.existing :
                      /\ isDupAt(st.existing, j, position, tol)
                      /\ \A i \in 1..(j - 1) : ~isDupAt(st.existing, i, position, tol)
         IN  [st EXCEPT !.remove = Append(@, st.existing[k].idx),
                        !.existing[k].idx = -1]
    ELSE st

\* App.cpp:837-847: dst is the last curve; its binding and points are
\* overwritten.  With an empty list the reference is out of bounds (ub).
plyOverwrite(g, triIndex, bary, pts) ==
    IF Len(g.curves) = 0 THEN g
    ELSE [g EXCEPT !.curves[Len(g.curves)] =
             [@ EXCEPT !.root = [triIndex |-> triIndex, bary |-> bary],
                       !.points = pts, !.prevPoints = pts]]

\* App.cpp:848-857: a curve without length is removed again
plyFinish(g, sum, n) ==
    IF Len(g.curves) = 0 THEN g
    ELSE IF n < 2 THEN g
    ELSE IF Le(sum, Tiny - 1) THEN removeCurve(g, Len(g.curves) - 1)
    ELSE [g EXCEPT !.curves[Len(g.curves)].segmentRestLen = RDiv(sum, n - 1)]

\* App.cpp:835-858 once the points of the new curve are known
plyAppend(st, m, settings, hit, position, normal, pts) ==
    [st EXCEPT
       !.g = plyFinish(plyOverwrite(addCurveOnMesh(st.g, m, hit.triIndex, hit.bary,
                                                   position, normal, settings,
                                                   newId(st.g)).g,
                                    hit.triIndex, hit.bary, pts),
                       polylineLength(pts, 1), Len(pts)),
       !.ub = st.ub \/ (Len(st.g.curves) = 0 /\ (~VFinite(position) \/ ~VFinite(normal)))]

\* App.cpp:803-858 once the root is bound at position
plyBound(st, m, settings, hit, position, pts) ==
    plyAppend(markDup(st, position, Max2(Tiny - 1, RDiv(settings.collisionThickness, 2))),
              m, settings, hit, position, hitNormalOf(m, hit.triIndex),
              [pts EXCEPT ![1] = position])

\* App.cpp:789-859, one curve of the file
plyCurve(st, m, settings, ic, hit) ==
    IF Len(ic.points) < 2 THEN st
    ELSE IF ~hit.hit \/ hit.triIndex < 0 THEN st
    ELSE plyBound(st, m, settings, hit, hitPosition(m, hit.triIndex, hit.bary),
                  rotateTo(ic.points, plyRootIdx(ic)))

RECURSIVE plyCurves(_, _, _, _, _, _)
\* App.cpp:789-859, the loop over the curves of the file, from curve i on
plyCurves(st, m, settings, ics, hits, i) ==
    IF i > Len(ics) THEN st
    ELSE plyCurves(plyCurve(st, m, settings, ics[i], hits[i]), m, settings, ics,
                   hits, i + 1)

\* indices below n in ascending order without duplicates, as std::sort and
\* std::unique leave them
sortedUnique(s, n) ==
    selectedFrom([i \in 1..n |-> IF \E k \in DOMAIN s : s[k] = i - 1 THEN 1 ELSE 0], 1)

\* App.cpp:861-868: the replaced curves are removed, nothing stays selected
plyDone(st) ==
    [g |-> deselectAll(IF st.remove = <<>> THEN st.g
                       ELSE removeCurves(st.g, Reverse(sortedUnique(st.remove,
                                                                     Len(st.existing))))),
     ub |-> st.ub]

\* App::actionImportCurvesPly once the file is read and a mesh is loaded:
\* [g, ub]
importCurvesPly(g, m, settings, ics, hits) ==
    plyDone(plyCurves([g |-> g, existing |-> existingRoots(g), remove |-> <<>>,
                       ub |-> FALSE],
                      m, settings, ics, hits, 1))

----------------------------------------------------------------------------
(* The state machine.  The environment (the user, the frame loop) starts   *)
(* one operation at a time; Scene::simulate is entered, runs its solver    *)
(* steps one by one and returns.                                           *)

Init ==
    /\ mesh = NoMesh
    /\ meshVersion = 0
    /\ guides = EmptyGuides
    /\ gs = DefaultSettings
    /\ gravityHeld = FALSE
    /\ drag = NoDrag
    /\ accumulator = 0
    /\ sim = [pc |-> "idle"]
    /\ cache = [cachedMesh |-> 0, meshBvh |-> EmptyBvh]
    /\ hist = [op |-> "init"]
    /\ budget = MaxOps

\* an operation may start
Idle == sim.pc = "idle" /\ budget > 0

\* the mesh object a load allocates while the old one is still alive
newMesh(f, a) == [addr |-> a, pos |-> FilePos(f), tris |-> FileTris(f)]
FreeAddrs == Addrs \ {mesh.addr}

\* Scene::loadMeshFromObj
LoadMeshFromObj(f, a) ==
    /\ Idle
    /\ IF loadFromObj(f)
       THEN /\ mesh' = newMesh(f, a)
            /\ meshVersion' = meshVersion + 1
            /\ guides' = clear(guides)
       ELSE /\ mesh' = NoMesh
            /\ UNCHANGED <<meshVersion, guides>>
    /\ hist' = [op |-> "loadMeshFromObj", file |-> f]
    /\ budget' = budget - 1
    /\ UNCHANGED <<gs, gravityHeld, drag, accumulator, sim, cache>>

\* Serialization.cpp: the mesh after the meshPath of the file is handled
sceneMesh(path, a) ==
    IF path = "" THEN mesh
    ELSE IF loadFromObj(path) THEN newMesh(path, a) ELSE NoMesh

\* Serialization.cpp:185-220: the curves are stored, unless the out-of-bounds
\* reference ended the program
StoreCurves(r) ==
    \E crash \in (IF r.ub THEN BOOLEAN ELSE {FALSE}) :
        IF crash
        THEN sim' = [pc |-> "crashed"] /\ guides' = EmptyGuides
        ELSE sim' = sim /\ guides' = r.g

\* Serialization::loadScene
LoadScene(f, a) ==
    /\ Idle
    /\ mesh' = sceneMesh(FileMeshPath(f), a)
    /\ meshVersion' = IF FileMeshPath(f) # "" /\ loadFromObj(FileMeshPath(f))
                      THEN meshVersion + 1 ELSE meshVersion
    /\ IF ~HasMesh(sceneMesh(FileMeshPath(f), a))
       THEN /\ guides' = clear(guides)
            /\ UNCHANGED <<gs, sim>>
       ELSE /\ gs' = FileSettings(f)
            /\ StoreCurves(loadSceneCurves([g |-> EmptyGuides, ub |-> FALSE],
                                           sceneMesh(FileMeshPath(f), a),
                                           FileSettings(f), FileCurves(f), 1))
    /\ hist' = [op |-> "loadScene", file |-> f]
    /\ budget' = budget - 1
    /\ UNCHANGED <<gravityHeld, drag, accumulator, cache>>

\* Scene::clearCurves
ClearCurves ==
    /\ Idle
    /\ guides' = clear(guides)
    /\ drag' = NoDrag
    /\ hist' = [op |-> "clearCurves"]
    /\ budget' = budget - 1
    /\ UNCHANGED <<mesh, meshVersion, gs, gravityHeld, accumulator, sim, cache>>

\* Scene::tick once the degenerate curves are collected
TickRemove(toRemove) ==
    IF toRemove # <<>>
    THEN /\ guides' = deselectAll(removeCurves(guides, Reverse(toRemove)))
         /\ drag' = NoDrag
    ELSE UNCHANGED <<guides, drag>>

\* Scene::tick
Tick ==
    /\ Idle
    /\ TickRemove(tickToRemove(guides))
    /\ hist' = [op |-> "tick", pre |-> guides]
    /\ budget' = budget - 1
    /\ UNCHANGED <<mesh, meshVersion, gs, gravityHeld, accumulator, sim, cache>>

\* Scene::handleViewportMouse: a root already within dupRootTol of the hit
duplicateRoot(g, position, dupRootTol) ==
    \E i \in 1..Len(g.curves) :
        /\ g.curves[i].points # <<>>
        /\ Le(Length(VSub(g.curves[i].points[1], position)), dupRootTol)

\* Scene::handleViewportMouse: the new curve is selected
CreateCurveStore(dup, r) ==
    /\ guides' = IF dup THEN guides
                 ELSE IF r.ret >= 0 THEN selectCurve(r.g, r.ret, FALSE)
                 ELSE r.g
    /\ hist' = [op |-> "createCurve", pre |-> guides,
                ret |-> IF dup THEN -2 ELSE r.ret]

\* Scene::handleViewportMouse once the ray has hit the mesh at position
CreateCurveAt(tri, bary, position) ==
    CreateCurveStore(duplicateRoot(guides, position,
                                   Max2(Tiny - 1, RDiv(gs.collisionThickness, 2))),
                     addCurveOnMesh(guides, mesh, tri, bary, position,
                                    hitNormalOf(mesh, tri), gs, newId(guides)))

\* Scene::handleViewportMouse, middle click on the mesh: create a curve
CreateCurve(tri, bary) ==
    /\ Idle
    /\ ~drag.dragging
    /\ HasMesh(mesh)
    /\ triValid(mesh, tri)
    /\ curveCount(guides) < MaxCurves
    /\ CreateCurveAt(tri, bary, hitPosition(mesh, tri, bary))
    /\ budget' = budget - 1
    /\ UNCHANGED <<mesh, meshVersion, gs, gravityHeld, drag, accumulator, sim, cache>>

\* Scene::handleViewportMouse, SHIFT+LMB on a hovered curve
SelectCurve(ci, additive) ==
    /\ Idle
    /\ ci \in pickCurve(guides)
    /\ guides' = selectCurve(guides, ci, additive)
    /\ hist' = [op |-> "selectCurve", curve |-> ci]
    /\ budget' = budget - 1
    /\ UNCHANGED <<mesh, meshVersion, gs, gravityHeld, drag, accumulator, sim, cache>>

\* Scene::handleViewportMouse, SHIFT+MMB on empty space
DeselectAll ==
    /\ Idle
    /\ guides' = deselectAll(guides)
    /\ hist' = [op |-> "deselectAll"]
    /\ budget' = budget - 1
    /\ UNCHANGED <<mesh, meshVersion, gs, gravityHeld, drag, accumulator, sim, cache>>

\* Scene::beginDragVertex with the pointer on a control point
BeginDragVertex(ci, vi) ==
    /\ Idle
    /\ <<ci, vi>> \in pickControlPoint(guides)
    /\ guides' = selectCurve(guides, ci, TRUE)
    /\ drag' = [dragging |-> TRUE, curve |-> ci, vert |-> vi]
    /\ hist' = [op |-> "beginDragVertex"]
    /\ budget' = budget - 1
    /\ UNCHANGED <<mesh, meshVersion, gs, gravityHeld, accumulator, sim, cache>>

\* Scene::updateDragVertex
UpdateDragVertex(target) ==
    /\ Idle
    /\ drag.dragging
    /\ IF drag.curve < 0 \/ drag.vert < 0 \/ drag.curve >= curveCount(guides)
       THEN UNCHANGED guides
       ELSE LET c == guides.curves[drag.curve + 1]
                a == Clamp(gs.dragLerp, 1, FracOne)
                p == IF drag.vert < Len(c.points)
                     THEN VAdd(c.points[drag.vert + 1],
                               VMulDiv(VSub(target, c.points[drag.vert + 1]), a, FracOne))
                     ELSE target
            IN  guides' = moveControlPoint(guides, drag.curve, drag.vert, p)
    /\ hist' = [op |-> "updateDragVertex", pre |-> guides]
    /\ budget' = budget - 1
    /\ UNCHANGED <<mesh, meshVersion, gs, gravityHeld, drag, accumulator, sim, cache>>

\* Scene::endDragVertex
EndDragVertex ==
    /\ Idle
    /\ drag.dragging
    /\ drag' = NoDrag
    /\ hist' = [op |-> "endDragVertex"]
    /\ budget' = budget - 1
    /\ UNCHANGED <<mesh, meshVersion, guides, gs, gravityHeld, accumulator, sim, cache>>

\* Scene::deleteSelectedCurves
DeleteSelectedCurves ==
    /\ Idle
    /\ LET sel == selectedCurves(guides)
       IN  IF sel = <<>> THEN UNCHANGED <<guides, drag>>
           ELSE /\ drag' = IF drag.dragging /\ \E k \in 1..Len(sel) : sel[k] = drag.curve
                           THEN NoDrag ELSE drag
                /\ guides' = removeCurves(guides, Reverse(sel))
    /\ hist' = [op |-> "deleteSelectedCurves", pre |-> guides]
    /\ budget' = budget - 1
    /\ UNCHANGED <<mesh, meshVersion, gs, gravityHeld, accumulator, sim, cache>>

\* Scene::setGravityOverrideHeld
SetGravityOverrideHeld(held) ==
    /\ Idle
    /\ held # gravityHeld
    /\ gravityHeld' = held
    /\ hist' = [op |-> "setGravityOverrideHeld"]
    /\ budget' = budget - 1
    /\ UNCHANGED <<mesh, meshVersion, guides, gs, drag, accumulator, sim, cache>>

\* the "Enable simulation" checkbox
SetEnableSimulation(on) ==
    /\ Idle
    /\ on # gs.enableSimulation
    /\ gs' = [gs EXCEPT !.enableSimulation = on]
    /\ hist' = [op |-> "setEnableSimulation"]
    /\ budget' = budget - 1
    /\ UNCHANGED <<mesh, meshVersion, guides, gravityHeld, drag, accumulator, sim, cache>>

\* App.cpp:421-434: a Length or Steps slider is moved; the selected curves
\* are resampled
EditLengthSteps(len, steps) ==
    /\ Idle
    /\ (len = gs.defaultLength) # (steps = gs.defaultSteps)
    /\ gs' = [gs EXCEPT !.defaultLength = len, !.defaultSteps = steps]
    /\ guides' = applyLengthStepsToSelected(guides, len, steps)
    /\ hist' = [op |-> "applyLengthStepsToSelected", pre |-> guides,
                len |-> len, steps |-> steps]
    /\ budget' = budget - 1
    /\ UNCHANGED <<mesh, meshVersion, gravityHeld, drag, accumulator, sim, cache>>

\* App::actionImportCurvesPly
ImportCurvesPly(f, hits) ==
    /\ Idle
    /\ curveCount(guides) + Len(PlyCurves(f)) <= MaxCurves
    /\ IF ~HasMesh(mesh) THEN UNCHANGED <<guides, sim>>
       ELSE StoreCurves(importCurvesPly(guides, mesh, gs, PlyCurves(f), hits))
    /\ hist' = [op |-> "importCurvesPly", file |-> f, pre |-> guides]
    /\ budget' = budget - 1
    /\ UNCHANGED <<mesh, meshVersion, gs, gravityHeld, drag, accumulator, cache>>

\* Scene.cpp:811-812 without the upper clamp
clampedDtUnbounded(dt) == Max2(dt, 0)

\* Scene.cpp:811-812
clampedDt(dt) == Clamp(dt, 0, MaxFrameDt)
\* Scene.cpp:818, the loop condition
loopContinues(acc, steps) == acc >= FixedDt /\ steps < MaxStepsPerFrame
\* GpuSolver::isAvailable in a build without HAIRTOOL_ENABLE_CUDA;
\* GpuSolver::step is then Physics::step
gpuAvailable == FALSE

\* Scene::simulate up to its loop
Simulate(dt) ==
    /\ Idle
    /\ IF ~gs.enableSimulation
       THEN /\ hist' = [op |-> "simulate", dt |-> dt, enabled |-> FALSE,
                        accBefore |-> accumulator, acc0 |-> accumulator,
                        steps |-> 0, accs |-> <<>>, pre |-> guides]
            /\ UNCHANGED <<accumulator, sim>>
       ELSE /\ accumulator' = fadd(accumulator, clampedDt(dt))
            /\ sim' = [pc |-> "loop", dt |-> dt, accBefore |-> accumulator,
                       acc0 |-> accumulator', steps |-> 0, accs |-> <<>>,
                       pre |-> guides]
            /\ hist' = [op |-> "simulateCall", dt |-> dt]
    /\ budget' = budget - 1
    /\ UNCHANGED <<mesh, meshVersion, guides, gs, gravityHeld, drag, cache>>

\* Physics::step has run: its result is stored, unless undefined behaviour
\* ended the program
StepStore(rebuilt, r) ==
    \E crash \in (IF r.ub THEN BOOLEAN ELSE {FALSE}) :
        IF crash
        THEN /\ sim' = [pc |-> "crashed"]
             /\ UNCHANGED guides
             /\ hist' = [op |-> "crash"]
        ELSE /\ sim' = [sim EXCEPT !.steps = @ + 1, !.accs = Append(@, accumulator)]
             /\ guides' = r.g
             /\ hist' = [op |-> "step", dt |-> FixedDt, ran |-> TRUE,
                         rebuilt |-> rebuilt, pre |-> guides,
                         drag |-> drag, afterRoots |-> r.afterRoots,
                         trace |-> r.trace, ub |-> r.ub,
                         rootsOob |-> r.rootsOob]

\* Physics.cpp:102-274: the static cache is brought up to date and the step
\* runs on its index
StepWithBvh(rebuilt, bvh) ==
    /\ cache' = [cachedMesh |-> mesh.addr, meshBvh |-> bvh]
    /\ StepStore(rebuilt, stepBody(guides, mesh, bvh, gs, gravityHeld, drag, FixedDt))

\* one iteration of the loop of Scene::simulate: Physics::step(fixedDt)
PhysicsStep ==
    /\ sim.pc = "loop"
    /\ loopContinues(accumulator, sim.steps)
    /\ accumulator' = fsub(accumulator, FixedDt)
    /\ IF FixedDt <= 0 \/ ~HasMesh(mesh)
       THEN /\ hist' = [op |-> "step", dt |-> FixedDt, ran |-> FALSE]
            /\ sim' = [sim EXCEPT !.steps = @ + 1, !.accs = Append(@, accumulator)]
            /\ UNCHANGED <<guides, cache>>
       ELSE StepWithBvh(cache.cachedMesh # mesh.addr,
                        IF cache.cachedMesh # mesh.addr THEN build(mesh)
                        ELSE cache.meshBvh)
    /\ UNCHANGED <<mesh, meshVersion, gs, gravityHeld, drag, budget>>

\* Scene::simulate returns
SimulateReturn ==
    /\ sim.pc = "loop"
    /\ ~loopContinues(accumulator, sim.steps)
    /\ sim' = [pc |-> "idle"]
    /\ hist' = [op |-> "simulate", dt |-> sim.dt, enabled |-> TRUE,
                accBefore |-> sim.accBefore, acc0 |-> sim.acc0,
                steps |-> sim.steps, accs |-> sim.accs, pre |-> sim.pre]
    /\ UNCHANGED <<mesh, meshVersion, guides, gs, gravityHeld, drag, accumulator,
                   cache, budget>>

Next ==
    \/ \E f \in MeshFiles, a \in FreeAddrs : LoadMeshFromObj(f, a)
    \/ \E f \in SceneFiles, a \in FreeAddrs : LoadScene(f, a)
    \/ ClearCurves
    \/ Tick
    \/ \E bary \in HitBarys : CreateCurve(0, bary)
    \/ \E ci \in 0..(MaxCurves - 1), additive \in BOOLEAN : SelectCurve(ci, additive)
    \/ DeselectAll
    \/ \E ci \in 0..(MaxCurves - 1), vi \in 1..(MaxCurveSteps - 1) : BeginDragVertex(ci, vi)
    \/ \E target \in DragTargets : UpdateDragVertex(target)
    \/ EndDragVertex
    \/ DeleteSelectedCurves
    \/ \E held \in BOOLEAN : SetGravityOverrideHeld(held)
    \/ \E on \in BOOLEAN : SetEnableSimulation(on)
    \/ \E len \in SliderLengths, steps \in SliderSteps : EditLengthSteps(len, steps)
    \/ \E f \in PlyFiles, hit \in PlyHits : ImportCurvesPly(f, <<hit>>)
    \/ \E dt \in FrameDts : Simulate(dt)
    \/ PhysicsStep
    \/ SimulateReturn

Spec == Init /\ [][Next]_vars

----------------------------------------------------------------------------
(* HairGuideSet::addCurveOnMesh on its own: the function is applied to     *)
(* arguments drawn from the sets below, on a guide set that is empty or    *)
(* holds one selected curve.                                               *)

\* triangle indices: negative, triangles of the head and of the patch, and
\* past the end of both
AddTris == {-1, 0, 1, 3, 7}
\* barycentrics: normalised, summing to 2, with a negative component,
\* all zero, non-finite
AddBarys == {<<6, 3, 3>>, <<12, 12, 0>>, <<-3, 9, 6>>, ZeroVec, NaNVec}
AddHitPositions == {<<4, 0, 4>>, <<8, 1, 8>>, NaNVec}
\* normals: unit, zero, of length 2, oblique, non-finite
AddHitNormals ==
    {<<0, UnitOne, 0>>, ZeroVec, <<0, 2 * UnitOne, 0>>, <<614, 0, -819>>, NaNVec}
\* GuideSettings::defaultLength as a settings file can leave it: the
\* default, zero, NaN and +inf
AddLengths == {12, 0, NaN, PosInf}
\* GuideSettings::defaultSteps: below the minimum, the scaled default, above
\* the maximum
AddSteps == {1, 3, 300}
\* the number of calls made
MaxAdds == 1

\* a guide set with one selected curve, made by addCurveOnMesh itself
oneCurve(m) ==
    selectCurve(addCurveOnMesh(EmptyGuides, m, 0, <<3, 3, 6>>, <<8, 0, 4>>,
                               <<0, UnitOne, 0>>, DefaultSettings, 1).g, 0, FALSE)

InitAdd ==
    /\ mesh \in {newMesh("head", 1), newMesh("patch", 1)}
    /\ meshVersion = 1
    /\ guides \in {EmptyGuides, oneCurve(mesh)}
    /\ gs = DefaultSettings
    /\ gravityHeld = FALSE
    /\ drag = NoDrag
    /\ accumulator = 0
    /\ sim = [pc |-> "idle"]
    /\ cache = [cachedMesh |-> 0, meshBvh |-> EmptyBvh]
    /\ hist = [op |-> "init"]
    /\ budget = MaxAdds

AddCurveStore(call, r) ==
    /\ guides' = r.g
    /\ hist' = [call EXCEPT !.ret = r.ret]

\* one call guides.addCurveOnMesh(mesh, triIndex, bary, hitPos, hitNormal,
\* settings)
AddCurve(triIndex, bary, hitPos, hitNormal, len, steps) ==
    /\ Idle
    /\ curveCount(guides) < MaxCurves
    /\ AddCurveStore([op |-> "addCurveOnMesh", pre |-> guides, ret |-> 0,
                      triIndex |-> triIndex, bary |-> bary, hitPos |-> hitPos,
                      hitNormal |-> hitNormal, len |-> len, steps |-> steps],
                     addCurveOnMesh(guides, mesh, triIndex, bary, hitPos, hitNormal,
                                    [DefaultSettings EXCEPT !.defaultLength = len,
                                                            !.defaultSteps = steps],
                                    newId(guides)))
    /\ budget' = budget - 1
    /\ UNCHANGED <<mesh, meshVersion, gs, gravityHeld, drag, accumulator, sim, cache>>

NextAdd ==
    \E triIndex \in AddTris, bary \in AddBarys, hitPos \in AddHitPositions,
       hitNormal \in AddHitNormals, len \in AddLengths, steps \in AddSteps :
        AddCurve(triIndex, bary, hitPos, hitNormal, len, steps)

SpecAdd == InitAdd /\ [][NextAdd]_vars

----------------------------------------------------------------------------
(* HairGuideSet::updatePinnedRootsFromMesh on its own: the function is     *)
(* applied to a guide set of one or two curves and to a Mesh object as     *)
(* Mesh::loadFromObj can leave it.                                          *)

\* a Mesh before any load: no positions, no indices
FreshMesh == [addr |-> 1, pos |-> <<>>, tris |-> <<>>]
\* the closed head, the single triangle, a file with vertices and no
\* faces, and a Mesh nothing was loaded into
RootMeshes == {newMesh("head", 1), newMesh("patch", 1), newMesh("nofaces", 1), FreshMesh}
\* stored bindings: unbound, triangles of the head and of the patch, the
\* first index past the head, and one far past it
RootTris == {-1, 0, 1, 3, 4, 7}
RootBarys == {<<6, 3, 3>>, <<12, 12, 0>>, NaNVec}
RootPoints ==
    {<<>>, << <<1, 1, 1>> >>, << <<4, 0, 4>>, <<4, 4, 4>>, <<4, 8, 4>> >>}
RootCurves ==
    {curveOf(1, [triIndex |-> t, bary |-> b], pts, 4) :
        t \in RootTris, b \in RootBarys, pts \in RootPoints}
\* the number of calls made
MaxResyncs == 2

guidesOf(cs) == [curves |-> cs, selected |-> [i \in 1..Len(cs) |-> 0], active |-> -1]

InitRoots ==
    /\ mesh \in RootMeshes
    /\ meshVersion = 1
    /\ guides \in {guidesOf(<<c>>) : c \in RootCurves}
                  \cup {guidesOf(<<c, [d EXCEPT !.id = 2]>>) :
                            c \in RootCurves, d \in RootCurves}
    /\ gs = DefaultSettings
    /\ gravityHeld = FALSE
    /\ drag = NoDrag
    /\ accumulator = 0
    /\ sim = [pc |-> "idle"]
    /\ cache = [cachedMesh |-> 0, meshBvh |-> EmptyBvh]
    /\ hist = [op |-> "init"]
    /\ budget = MaxResyncs

\* one call guides.updatePinnedRootsFromMesh(mesh)
ResyncRoots ==
    /\ Idle
    /\ guides' = updatePinnedRootsFromMesh(guides, mesh)
    /\ hist' = [op |-> "updatePinnedRootsFromMesh", pre |-> guides,
                oob |-> rootsOob(guides, mesh)]
    /\ budget' = budget - 1
    /\ UNCHANGED <<mesh, meshVersion, gs, gravityHeld, drag, accumulator, sim, cache>>

NextRoots == ResyncRoots

SpecRoots == InitRoots /\ [][NextRoots]_vars

----------------------------------------------------------------------------
(* Physics::step and Scene::tick on their own: one call on the head, on a *)
(* guide set of one to three curves, each selected or not.  The            *)
(* mesh-collision sub-pass is also applied to a single point, as the loop  *)
(* of Physics.cpp:222-250 applies it.                                      *)

\* The shapes of the curves.  "up" and "lean" are the guides of the scene
\* file "pair"; "tilt" leans towards both; "tall", "beside" and "third" are
\* single segments in a row, one unit apart, the last two not bound to the
\* mesh; "blown" has a
\* non-finite point that is not its root; "sunk" has a point inside the
\* head and one within the collision thickness above it; "deep" has a
\* point inside the head further from the surface than the thickness;
\* "flat" has two points at one place; "dot" is a single point.
StepShapes == {"up", "lean", "tilt", "tall", "beside", "third", "blown", "sunk",
               "deep", "flat", "dot"}
StepRoot(sh) ==
    CASE sh = "lean" -> [triIndex |-> 0, bary |-> <<3, 3, 6>>]
      [] sh = "tilt" -> [triIndex |-> 0, bary |-> <<3, 6, 3>>]
      [] sh = "beside" -> [triIndex |-> -1, bary |-> <<4, 4, 4>>]
      [] sh = "third" -> [triIndex |-> -1, bary |-> <<4, 4, 4>>]
      [] OTHER -> [triIndex |-> 0, bary |-> <<6, 3, 3>>]
StepPoints(sh) ==
    CASE sh = "up" -> << <<4, 0, 4>>, <<4, 4, 4>>, <<4, 8, 4>> >>
      [] sh = "lean" -> << <<8, 0, 4>>, <<6, 4, 4>>, <<6, 8, 4>> >>
      [] sh = "tilt" -> << <<4, 0, 8>>, <<5, 4, 5>>, <<5, 8, 5>> >>
      [] sh = "tall" -> << <<4, 0, 4>>, <<4, 8, 4>> >>
      [] sh = "beside" -> << <<5, 0, 4>>, <<5, 8, 4>> >>
      [] sh = "third" -> << <<6, 0, 4>>, <<6, 8, 4>> >>
      [] sh = "blown" -> << <<4, 0, 4>>, <<4, 4, 4>>, NaNVec >>
      [] sh = "sunk" -> << <<4, 0, 4>>, <<4, -1, 4>>, <<4, 2, 4>> >>
      [] sh = "deep" -> << <<4, 0, 4>>, <<2, -4, 2>>, <<4, 4, 4>> >>
      [] sh = "flat" -> << <<4, 0, 4>>, <<4, 0, 4>> >>
      [] OTHER -> << <<4, 0, 4>> >>
stepCurveOf(id, sh) ==
    curveOf(id, StepRoot(sh), StepPoints(sh),
            IF sh \in {"tall", "beside", "third"} THEN 8 ELSE 4)
\* the guide sets: a sequence of shapes and a selection flag for each
StepLists == UNION {[1..n -> StepShapes] : n \in 1..2}
                \cup {<<a, b, c>> : a \in {"up", "blown", "tall"},
                                    b \in {"lean", "blown", "beside"},
                                    c \in {"tilt", "blown", "dot", "third"}}
stepGuides(shs, sel) ==
    [curves |-> [i \in 1..Len(shs) |-> stepCurveOf(i, shs[i])],
     selected |-> sel, active |-> firstSelected(sel)]
\* the number of calls made
MaxSteps == 1

InitStep ==
    /\ mesh = newMesh("head", 1)
    /\ meshVersion = 1
    /\ \E shs \in StepLists : \E sel \in [1..Len(shs) -> {0, 1}] :
           guides = stepGuides(shs, sel)
    /\ gs \in {CollideSettings, FallSettings}
    /\ gravityHeld = FALSE
    /\ drag = NoDrag
    /\ accumulator = 0
    /\ sim = [pc |-> "idle"]
    /\ cache = [cachedMesh |-> 0, meshBvh |-> EmptyBvh]
    /\ hist = [op |-> "init"]
    /\ budget = MaxSteps

StepAloneStore(r) ==
    /\ guides' = r.g
    /\ hist' = [op |-> "step", pre |-> guides, afterRoots |-> r.afterRoots,
                afterLoop |-> r.afterLoop, trace |-> r.trace, ub |-> r.ub]

\* one call Physics::step(scene, FixedDt): the index is built (the cached
\* pointer is null) and the step runs
StepAlone ==
    /\ Idle
    /\ cache' = [cachedMesh |-> mesh.addr, meshBvh |-> build(mesh)]
    /\ StepAloneStore(stepBody(guides, mesh, build(mesh), gs, gravityHeld, drag, FixedDt))
    /\ budget' = budget - 1
    /\ UNCHANGED <<mesh, meshVersion, gs, gravityHeld, drag, accumulator, sim>>

\* Physics.cpp:223-249 for point i of the selected curve ci
MeshCollide(ci, i) ==
    /\ Idle
    /\ ci < curveCount(guides) /\ isCurveSelected(guides, ci)
    /\ i >= 1 /\ i < Len(guides.curves[ci + 1].points)
    /\ ~hasInvalid(guides.curves[ci + 1])
    /\ cache' = [cachedMesh |-> mesh.addr, meshBvh |-> build(mesh)]
    /\ guides' = [guides EXCEPT !.curves[ci + 1] =
                      collidePoint(@, i, mesh, build(mesh), gs).c]
    /\ hist' = [op |-> "collidePoint", pre |-> guides, curve |-> ci, point |-> i]
    /\ budget' = budget - 1
    /\ UNCHANGED <<mesh, meshVersion, gs, gravityHeld, drag, accumulator, sim>>

NextStep ==
    \/ StepAlone
    \/ Tick
    \/ \E ci \in 0..2, i \in 1..2 : MeshCollide(ci, i)

SpecStep == InitStep /\ [][NextStep]_vars

----------------------------------------------------------------------------
(* HairGuideSet::applyLengthStepsToSelected on its own: the function is    *)
(* applied to a guide set of the shapes above, at rest or moving, with     *)
(* arguments drawn from the sets below.                                    *)

\* lengths: not a number, negative, zero, shorter than the curves, longer
\* than them, and infinite
ResampleLengths == {NaN, -4, 0, 6, 12, 20, PosInf}
\* step counts: below the least, the least, in between and above the most
ResampleSteps == {-1, 1, 2, 3, 5, 300}
MaxResamples == 1

\* a curve in motion: prevPoints lie one unit beside the points
movingCurve(c) ==
    [c EXCEPT !.prevPoints =
        [i \in 1..Len(c.prevPoints) |-> VAdd(c.prevPoints[i], <<1, 0, 0>>)]]
resampleGuides(shs, sel, moving) ==
    [stepGuides(shs, sel) EXCEPT !.curves =
        [i \in 1..Len(shs) |->
            IF moving THEN movingCurve(stepCurveOf(i, shs[i]))
            ELSE stepCurveOf(i, shs[i])]]

InitResample ==
    /\ mesh = newMesh("head", 1)
    /\ meshVersion = 1
    /\ \E shs \in StepLists : \E sel \in [1..Len(shs) -> {0, 1}] :
           \E moving \in BOOLEAN : guides = resampleGuides(shs, sel, moving)
    /\ gs = DefaultSettings
    /\ gravityHeld = FALSE
    /\ drag = NoDrag
    /\ accumulator = 0
    /\ sim = [pc |-> "idle"]
    /\ cache = [cachedMesh |-> 0, meshBvh |-> EmptyBvh]
    /\ hist = [op |-> "init"]
    /\ budget = MaxResamples

\* guides.applyLengthStepsToSelected(newLength, newSteps)
ApplyLengthSteps(newLength, newSteps) ==
    /\ Idle
    /\ guides' = applyLengthStepsToSelected(guides, newLength, newSteps)
    /\ hist' = [op |-> "applyLengthSteps", pre |-> guides,
                newLength |-> newLength, newSteps |-> newSteps]
    /\ budget' = budget - 1
    /\ UNCHANGED <<mesh, meshVersion, gs, gravityHeld, drag, accumulator, sim, cache>>

NextResample ==
    \E newLength \in ResampleLengths, newSteps \in ResampleSteps :
        ApplyLengthSteps(newLength, newSteps)

SpecResample == InitResample /\ [][NextResample]_vars

----------------------------------------------------------------------------
(* HairGuideSet on its own: starting from the empty set, curves are added, *)
(* selected, moved and removed through the member functions, with indices  *)
(* inside and outside the list.                                            *)

MaxGuideCurves == 3
MaxGuideOps == 5
\* curve and vertex indices: negative, valid, and past the end
GuideIdxs == -1..MaxGuideCurves
GuideVerts == -1..3
\* positions: two finite ones, one with a component that is not finite and
\* one with none finite
GuidePositions == {<<4, 4, 4>>, <<1, 9, 2>>, <<4, NaN, 4>>, NaNVec}
\* hit positions for addCurveOnMesh: on the top face of the head, or not
\* finite
GuideHits == {<<4, 0, 4>>, <<8, 0, 4>>, NaNVec}
\* index lists for removeCurves, in descending order, the last with an
\* index past the end
GuideIdxLists == {<<1, 0>>, <<2, 0>>, <<2, 1, 0>>, <<3, 1>>}

InitGuides ==
    /\ mesh = newMesh("head", 1)
    /\ meshVersion = 1
    /\ guides = EmptyGuides
    /\ gs = DefaultSettings
    /\ gravityHeld = FALSE
    /\ drag = NoDrag
    /\ accumulator = 0
    /\ sim = [pc |-> "idle"]
    /\ cache = [cachedMesh |-> 0, meshBvh |-> EmptyBvh]
    /\ hist = [op |-> "init"]
    /\ budget = MaxGuideOps

\* a member function of HairGuideSet has run and left g
GuidesCall(call, g) ==
    /\ Idle
    /\ guides' = g
    /\ hist' = call
    /\ budget' = budget - 1
    /\ UNCHANGED <<mesh, meshVersion, gs, gravityHeld, drag, accumulator, sim, cache>>

GuidesAddCurveOnMesh(bary, hitPos) ==
    /\ curveCount(guides) < MaxGuideCurves
    /\ GuidesCall([op |-> "addCurveOnMesh", pre |-> guides],
                  addCurveOnMesh(guides, mesh, 0, bary, hitPos, <<0, UnitOne, 0>>,
                                 gs, newId(guides)).g)
GuidesMoveControlPoint(ci, vi, p) ==
    GuidesCall([op |-> "moveControlPoint", pre |-> guides, curve |-> ci,
                vert |-> vi, worldPos |-> p],
               moveControlPoint(guides, ci, vi, p))
GuidesSelectCurve(ci, additive) ==
    GuidesCall([op |-> "selectCurve", pre |-> guides, curve |-> ci],
               selectCurve(guides, ci, additive))
GuidesToggleCurveSelected(ci) ==
    GuidesCall([op |-> "toggleCurveSelected", pre |-> guides, curve |-> ci],
               toggleCurveSelected(guides, ci))
GuidesDeselectAll ==
    GuidesCall([op |-> "deselectAll", pre |-> guides], deselectAll(guides))
GuidesRemoveCurve(ci) ==
    GuidesCall([op |-> "removeCurve", pre |-> guides, curve |-> ci],
               removeCurve(guides, ci))
GuidesRemoveCurves(idxs) ==
    GuidesCall([op |-> "removeCurves", pre |-> guides, idxs |-> idxs],
               removeCurves(guides, idxs))
GuidesClear ==
    GuidesCall([op |-> "clear", pre |-> guides], clear(guides))

NextGuides ==
    \/ \E bary \in HitBarys, hitPos \in GuideHits : GuidesAddCurveOnMesh(bary, hitPos)
    \/ \E ci \in GuideIdxs, vi \in GuideVerts, p \in GuidePositions :
           GuidesMoveControlPoint(ci, vi, p)
    \/ \E ci \in GuideIdxs, additive \in BOOLEAN : GuidesSelectCurve(ci, additive)
    \/ \E ci \in GuideIdxs : GuidesToggleCurveSelected(ci)
    \/ GuidesDeselectAll
    \/ \E ci \in GuideIdxs : GuidesRemoveCurve(ci)
    \/ \E idxs \in GuideIdxLists : GuidesRemoveCurves(idxs)
    \/ GuidesClear

SpecGuides == InitGuides /\ [][NextGuides]_vars

----------------------------------------------------------------------------
(* The stretch constraint on its own: Physics::step on one selected curve  *)
(* of two points at rest, without gravity and with both collisions off.    *)

\* where the free end starts: on the root, beside it, above it, far away
StretchEnds == {<<x, y, z>> : x \in {-2, 4, 10}, y \in {0, 2, 8, 20}, z \in {1, 4}}
StretchRests == {4, 8}
StretchIters == {1, 2, 3}
MaxStretchSteps == 1

StretchSettings(iters) ==
    [DefaultSettings EXCEPT !.enableMeshCollision = FALSE,
                            !.enableCurveCollision = FALSE,
                            !.gravity = 0, !.solverIterations = iters]
\* a curve from the point (4, 0, 4) of the top face, bound there or not
stretchCurve(bound, end, rest) ==
    curveOf(1, IF bound THEN [triIndex |-> 0, bary |-> <<6, 3, 3>>]
               ELSE [triIndex |-> -1, bary |-> ZeroVec],
            << <<4, 0, 4>>, end >>, rest)

InitStretch ==
    /\ mesh = newMesh("head", 1)
    /\ meshVersion = 1
    /\ \E bound \in BOOLEAN, end \in StretchEnds, rest \in StretchRests :
           guides = [curves |-> <<stretchCurve(bound, end, rest)>>,
                     selected |-> <<1>>, active |-> 0]
    /\ \E iters \in StretchIters : gs = StretchSettings(iters)
    /\ gravityHeld = FALSE
    /\ drag = NoDrag
    /\ accumulator = 0
    /\ sim = [pc |-> "idle"]
    /\ cache = [cachedMesh |-> 0, meshBvh |-> EmptyBvh]
    /\ hist = [op |-> "init"]
    /\ budget = MaxStretchSteps

NextStretch == StepAlone

SpecStretch == InitStretch /\ [][NextStretch]_vars

----------------------------------------------------------------------------
(* The root binding under the solver: Physics::step,                       *)
(* updatePinnedRootsFromMesh and removeCurve are called on guide sets      *)
(* whose curves are bound to a triangle of the mesh, to an index past its  *)
(* triangles, or to none.                                                  *)

\* stored bindings: unbound (-1 and another negative index), the first
\* triangle, the last triangle of the head, and an index past both meshes
BindTris == {-5, -1, 0, 3, 7}
BindBarys == {<<6, 3, 3>>, NaNVec}
\* an upright curve, and one whose last point is not finite
BindPoints == {<< <<4, 0, 4>>, <<4, 4, 4>>, <<4, 8, 4>> >>,
               << <<4, 0, 4>>, <<4, 4, 4>>, NaNVec >>}
BindCurves ==
    {curveOf(1, [triIndex |-> t, bary |-> b], pts, 4) :
        t \in BindTris, b \in BindBarys, pts \in BindPoints}
MaxBindOps == 3

bindGuides(cs, sel) == [curves |-> cs, selected |-> sel, active |-> firstSelected(sel)]

InitBind ==
    /\ mesh \in {newMesh("head", 1), newMesh("patch", 1)}
    /\ meshVersion = 1
    /\ \E c \in BindCurves, d \in BindCurves, n \in 1..2 :
           \E sel \in [1..n -> {0, 1}] :
               guides = bindGuides(SubSeq(<<c, [d EXCEPT !.id = 2]>>, 1, n), sel)
    /\ gs = DefaultSettings
    /\ gravityHeld = FALSE
    /\ drag = NoDrag
    /\ accumulator = 0
    /\ sim = [pc |-> "idle"]
    /\ cache = [cachedMesh |-> 0, meshBvh |-> EmptyBvh]
    /\ hist = [op |-> "init"]
    /\ budget = MaxBindOps

NextBind ==
    \/ StepAlone
    \/ ResyncRoots
    \/ \E ci \in -1..2 : GuidesRemoveCurve(ci)

SpecBind == InitBind /\ [][NextBind]_vars

----------------------------------------------------------------------------
(* The velocity guard on its own: the start of the loop body of            *)
(* Physics::step (Physics.cpp:131-149) is applied to a selected curve      *)
(* whose prevPoints lie at chosen displacements from its points.           *)

\* displacements points[i] - prevPoints[i]: none, small, just below, at and
\* above the ceiling of 50 m/s * dt (about 17 units), oblique, and not finite
GuardDisps == {ZeroVec, <<1, 0, 0>>, <<0, 16, 0>>, <<0, 17, 0>>, <<0, 18, 0>>,
               <<10, 10, 10>>, <<30, -40, 0>>, NaNVec}
GuardRootDisps == {ZeroVec, <<0, 18, 0>>}
\* an upright curve, and one whose last point is not finite
GuardPoints == {<< <<4, 0, 4>>, <<4, 4, 4>>, <<4, 8, 4>> >>,
                << <<4, 0, 4>>, <<4, 4, 4>>, NaNVec >>}
\* the curve with its prevPoints set back by the displacements ds
guardCurve(id, pts, ds) ==
    [curveOf(id, [triIndex |-> -1, bary |-> ZeroVec], pts, 4)
       EXCEPT !.prevPoints = [i \in 1..Len(pts) |-> VSub(pts[i], ds[i])]]
\* the curves: every choice of displacements, and curves whose prevPoints
\* are fewer than their points
GuardCurves ==
    {guardCurve(1, pts, <<r, d, e>>) :
        pts \in GuardPoints, r \in GuardRootDisps, d \in GuardDisps, e \in GuardDisps}
    \cup {[guardCurve(1, pts, <<ZeroVec, ZeroVec, ZeroVec>>)
              EXCEPT !.prevPoints = << <<9, 9, 9>> >>] : pts \in GuardPoints}
MaxGuards == 1

InitGuard ==
    /\ mesh = newMesh("head", 1)
    /\ meshVersion = 1
    /\ \E c \in GuardCurves, n \in 1..2 : \E sel \in [1..n -> {0, 1}] :
           guides = bindGuides(SubSeq(<<c, stepCurveOf(2, "up")>>, 1, n), sel)
    /\ gs = DefaultSettings
    /\ gravityHeld = FALSE
    /\ drag = NoDrag
    /\ accumulator = 0
    /\ sim = [pc |-> "idle"]
    /\ cache = [cachedMesh |-> 0, meshBvh |-> EmptyBvh]
    /\ hist = [op |-> "init"]
    /\ budget = MaxGuards

\* Physics.cpp:123-149 for curve ci with dt = FixedDt: the curve is selected
\* and has two points or more; prevPoints is sized and the guard runs
GuardCurve(ci) ==
    /\ Idle
    /\ ci < curveCount(guides) /\ isCurveSelected(guides, ci)
    /\ Len(guides.curves[ci + 1].points) >= 2
    /\ guides' = [guides EXCEPT !.curves[ci + 1] =
                      killCorruptVelocities(sizedPrev(@), FixedDt)]
    /\ hist' = [op |-> "guard", pre |-> guides, curve |-> ci]
    /\ budget' = budget - 1
    /\ UNCHANGED <<mesh, meshVersion, gs, gravityHeld, drag, accumulator, sim, cache>>

NextGuard == \E ci \in 0..1 : GuardCurve(ci)

SpecGuard == InitGuard /\ [][NextGuard]_vars

----------------------------------------------------------------------------
(* The operations that write segmentRestLen: curve creation, resampling,   *)
(* scene load, PLY import and the solver step, with the selection calls    *)
(* that decide which curves the step and the resampling touch.             *)

RestFiles == SceneFiles \cup {"still"}
MaxRestOps == 3

InitRest ==
    /\ mesh = newMesh("head", 1)
    /\ meshVersion = 1
    /\ guides = EmptyGuides
    /\ gs = DefaultSettings
    /\ gravityHeld = FALSE
    /\ drag = NoDrag
    /\ accumulator = 0
    /\ sim = [pc |-> "idle"]
    /\ cache = [cachedMesh |-> 0, meshBvh |-> EmptyBvh]
    /\ hist = [op |-> "init"]
    /\ budget = MaxRestOps

NextRest ==
    \/ \E f \in RestFiles, a \in FreeAddrs : LoadScene(f, a)
    \/ \E bary \in HitBarys : CreateCurve(0, bary)
    \/ \E ci \in 0..(MaxCurves - 1), additive \in BOOLEAN : SelectCurve(ci, additive)
    \/ DeselectAll
    \/ \E len \in SliderLengths, steps \in SliderSteps : EditLengthSteps(len, steps)
    \/ \E f \in PlyFiles, hit \in PlyHits : ImportCurvesPly(f, <<hit>>)
    \/ StepAlone

SpecRest == InitRest /\ [][NextRest]_vars

----------------------------------------------------------------------------
(* The index Physics::step keeps: meshes are loaded, curves are created    *)
(* and the frame loop runs Scene::simulate, as in Spec, for a longer run   *)
(* of operations.                                                          *)

\* two meshes with the same number of triangles and a file that fails to
\* load
CacheFiles == {"head", "low", "nofaces"}
\* a frame of no length and one of 1/60 s
CacheDts == {0, 17895697}
MaxCacheOps == 6

InitCache ==
    /\ mesh = NoMesh
    /\ meshVersion = 0
    /\ guides = EmptyGuides
    /\ gs = DefaultSettings
    /\ gravityHeld = FALSE
    /\ drag = NoDrag
    /\ accumulator = 0
    /\ sim = [pc |-> "idle"]
    /\ cache = [cachedMesh |-> 0, meshBvh |-> EmptyBvh]
    /\ hist = [op |-> "init"]
    /\ budget = MaxCacheOps

NextCache ==
    \/ \E f \in CacheFiles, a \in FreeAddrs : LoadMeshFromObj(f, a)
    \/ \E bary \in HitBarys : CreateCurve(0, bary)
    \/ \E on \in BOOLEAN : SetEnableSimulation(on)
    \/ \E dt \in CacheDts : Simulate(dt)
    \/ PhysicsStep
    \/ SimulateReturn

SpecCache == InitCache /\ [][NextCache]_vars

----------------------------------------------------------------------------
(* Raycast.cpp                                                             *)

\* rayTri once det and the numerators of u, v, t are known: whether the ray
\* hits, and t as the fraction tn / det
rayTriHit(det, un, vn, tn) ==
    [hit |-> /\ ~(Abs(det) < Tiny)
             /\ ~(RatNeg(un, det) \/ RatAboveOne(un, det))
             /\ ~(RatNeg(vn, det) \/ RatAboveOne(un + vn, det))
             /\ ~RatNeg(tn, det),
     tn |-> IF det < 0 THEN -tn ELSE tn, det |-> Abs(det),
     bary |-> IF det = 0 THEN ZeroVec
              ELSE <<BaryOne - RDiv(BaryOne * (un + vn), det),
                     RDiv(BaryOne * un, det), RDiv(BaryOne * vn, det)>>]
rayTriWith(rd, e1, e2, pv, sv, q) ==
    rayTriHit(Dot(e1, pv), Dot(sv, pv), Dot(rd, q), Dot(e2, q))
\* Raycast.cpp:9-31
rayTri(ro, rd, a, b, c) ==
    rayTriWith(rd, VSub(b, a), VSub(c, a), Cross(rd, VSub(c, a)), VSub(ro, a),
               Cross(VSub(ro, a), VSub(b, a)))

\* RayHit as its default member initialisers leave it
NoRayHit == [hit |-> FALSE, triIndex |-> -1, bary |-> ZeroVec]

\* the callback of raycastMesh: best is [tri, tn, det, bary], tri -1 and
\* t infinite when nothing was hit yet
rayBetter(best, tri, h) ==
    IF h.hit /\ (best.tri < 0 \/ h.tn * best.det < best.tn * h.det)
    THEN [tri |-> tri, tn |-> h.tn, det |-> h.det, bary |-> h.bary]
    ELSE best

RECURSIVE rayBest(_, _, _, _, _)
\* Raycast.cpp:51-63: the callbacks in the order Bvh::raycast makes them
rayBest(m, ro, rd, cand, best) ==
    IF cand = <<>> THEN best
    ELSE rayBest(m, ro, rd, Tail(cand),
                 rayBetter(best, Head(cand),
                           rayTri(ro, rd, Pos(m, Ind(m, Head(cand), 0)),
                                  Pos(m, Ind(m, Head(cand), 1)),
                                  Pos(m, Ind(m, Head(cand), 2)))))

\* Raycast.cpp:65-83
rayResult(best, rc) ==
    IF best.tri < 0 THEN [ret |-> FALSE, outHit |-> NoRayHit, cache |-> rc]
    ELSE [ret |-> TRUE,
          outHit |-> [hit |-> TRUE, triIndex |-> best.tri, bary |-> best.bary],
          cache |-> rc]

\* Raycast.cpp:47-83 on the index rc.meshBvh
rayOnBvh(m, ro, rd, rc) ==
    rayResult(rayBest(m, ro, rd, raycast(rc.meshBvh, ro, rd),
                      [tri |-> -1, tn |-> 0, det |-> 1, bary |-> ZeroVec]),
              rc)

\* Raycast::raycastMesh; rc is its static pair (cachedMesh, bvh).  The
\* result is [ret, outHit, cache].
raycastMesh(m, ro, rd, rc) ==
    IF m.pos = <<>> \/ m.tris = <<>>
    THEN [ret |-> FALSE, outHit |-> NoRayHit, cache |-> rc]
    ELSE rayOnBvh(m, ro, rd,
                  IF rc.cachedMesh # m.addr
                  THEN [cachedMesh |-> m.addr, meshBvh |-> build(m)] ELSE rc)

----------------------------------------------------------------------------
(* Bvh on its own: a Bvh object is built for a mesh, once, and queried,   *)
(* before the build or after it.  cache holds the Bvh object and the mesh  *)
(* it was last built for, as the static pair of Raycast::raycastMesh does. *)

\* vertex k of a strip of triangles that runs along x, and of one that
\* runs along y
ribbonVertex(k) == <<4 * k, 3 * (k % 3), 4 * (k % 2)>>
towerVertex(k) == <<4 * (k % 2), 4 * k, 3 * (k % 3)>>
\* a strip of n triangles: triangle t has the vertices t, t + 1, t + 2
ribbon(n) ==
    [addr |-> 1, pos |-> [k \in 1..(n + 2) |-> ribbonVertex(k - 1)],
     tris |-> [t \in 1..n |-> <<t - 1, t, t + 1>>]]
tower(n) ==
    [addr |-> 1, pos |-> [k \in 1..(n + 2) |-> towerVertex(k - 1)],
     tris |-> [t \in 1..n |-> <<t - 1, t, t + 1>>]]
\* the strips have 8 triangles (one leaf), 9 (one split), 17 and 20 (two
\* levels of splits); "nofaces" has vertices and no triangle, FreshMesh has
\* neither
BvhMeshes ==
    {newMesh("head", 1), newMesh("patch", 1), ribbon(8), ribbon(9), tower(17),
     ribbon(20), newMesh("nofaces", 1), FreshMesh}
\* query points, around and inside the strips, and one that is not a number
BvhPoints ==
    {<<x, y, z>> : x \in {-3, 10, 41, 70}, y \in {-2, 4, 30, 66}, z \in {0, 2, 9}}
        \cup {NaNVec}
BvhMaxDists == {2, 6, 40, DefaultMaxDist}
\* ray directions: along an axis
BvhDirs == {<<1, 0, 0>>, <<0, 1, 0>>, <<0, 0, 1>>}
\* the number of queries made
MaxQueries == 1

InitBvh ==
    /\ mesh \in BvhMeshes
    /\ meshVersion = 1
    /\ guides = EmptyGuides
    /\ gs = DefaultSettings
    /\ gravityHeld = FALSE
    /\ drag = NoDrag
    /\ accumulator = 0
    /\ sim = [pc |-> "idle"]
    /\ cache = [cachedMesh |-> 0, meshBvh |-> EmptyBvh]
    /\ hist = [op |-> "init"]
    /\ budget = MaxQueries

\* bvh.build(mesh), for a mesh the object is not built for
BvhBuild ==
    /\ cache.cachedMesh # mesh.addr
    /\ cache' = [cachedMesh |-> mesh.addr, meshBvh |-> build(mesh)]
    /\ hist' = [op |-> "build"]
    /\ UNCHANGED <<mesh, meshVersion, guides, gs, gravityHeld, drag, accumulator, sim,
                   budget>>

\* bvh.nearestTriangle(p, tri, cp, n, maxDist)
BvhNearest(p, maxDist) ==
    /\ Idle
    /\ hist' = [op |-> "nearestTriangle", p |-> p, maxDist |-> maxDist,
                ret |-> nearestTriangle(mesh, cache.meshBvh, p, maxDist)]
    /\ budget' = budget - 1
    /\ UNCHANGED <<mesh, meshVersion, guides, gs, gravityHeld, drag, accumulator,
                   sim, cache>>

\* bvh.raycast(ro, rd, callback): the callbacks made
BvhRaycast(ro, rd) ==
    /\ Idle
    /\ VFinite(ro)
    /\ hist' = [op |-> "raycast", ro |-> ro, rd |-> rd,
                calls |-> raycast(cache.meshBvh, ro, rd)]
    /\ budget' = budget - 1
    /\ UNCHANGED <<mesh, meshVersion, guides, gs, gravityHeld, drag, accumulator,
                   sim, cache>>

RaycastMeshStore(ro, rd, r) ==
    /\ cache' = r.cache
    /\ hist' = [op |-> "raycastMesh", ro |-> ro, rd |-> rd, ret |-> r.ret,
                outHit |-> r.outHit]

\* Raycast::raycastMesh(mesh, ro, rd, outHit)
RaycastMesh(ro, rd) ==
    /\ Idle
    /\ VFinite(ro)
    /\ RaycastMeshStore(ro, rd, raycastMesh(mesh, ro, rd, cache))
    /\ budget' = budget - 1
    /\ UNCHANGED <<mesh, meshVersion, guides, gs, gravityHeld, drag, accumulator, sim>>

NextBvh ==
    \/ BvhBuild
    \/ \E p \in BvhPoints, maxDist \in BvhMaxDists : BvhNearest(p, maxDist)
    \/ \E ro \in BvhPoints, rd \in BvhDirs : BvhRaycast(ro, rd)
    \/ \E ro \in BvhPoints, rd \in BvhDirs : RaycastMesh(ro, rd)

SpecBvh == InitBvh /\ [][NextBvh]_vars

----------------------------------------------------------------------------
(* Scene::simulate                                                         *)

\* the points and prevPoints of every curve of g are those of h
samePoints(g, h) ==
    /\ Len(g.curves) = Len(h.curves)
    /\ \A i \in 1..Len(g.curves) :
          /\ g.curves[i].points = h.curves[i].points
          /\ g.curves[i].prevPoints = h.curves[i].prevPoints

\* C1: a call Scene::simulate(dt) with dt <= 0, after any history of earlier
\* calls, runs no solver step and leaves the points and prevPoints of every
\* curve as they were before the call.
C1_NonPositiveDtRunsNoStep ==
    (hist.op = "simulate" /\ hist.dt <= 0) =>
        (hist.steps = 0 /\ samePoints(guides, hist.pre))

\* C2 as stated: with simulation enabled, a call runs exactly
\* min(8, floor(accumulator / fixedDt)) solver steps, the accumulator being
\* the one the call has just added clamp(dt, 0, 1/15 s) to.
C2_ClosedFormStepCount ==
    (hist.op = "simulate" /\ hist.enabled) =>
        hist.steps = Min2(MaxStepsPerFrame, hist.acc0 \div FixedDt)

\* C2, amended: with simulation enabled, a call adds clamp(dt, 0, 1/15 s) to
\* the accumulator in float arithmetic and then runs a solver step, each
\* with timestep fixedDt, and subtracts fixedDt, for as long as the
\* accumulator holds at least fixedDt and fewer than 8 steps have run; so no
\* call runs more than 8 steps, and a call that ran fewer than 8 leaves less
\* than fixedDt in the accumulator.
C2_StepsWhileSubstepHeld ==
    /\ (sim.pc = "loop") => sim.steps <= MaxStepsPerFrame
    /\ (hist.op = "step") => hist.dt = FixedDt
    /\ (hist.op = "simulate" /\ hist.enabled) =>
          /\ hist.acc0 = fadd(hist.accBefore, Clamp(hist.dt, 0, MaxFrameDt))
          /\ hist.steps = Len(hist.accs)
          /\ hist.steps <= MaxStepsPerFrame
          /\ \A i \in 1..Len(hist.accs) :
                /\ hist.accs[i] >= FixedDt
                /\ hist.accs[i] = IF i = 1 THEN hist.acc0
                                  ELSE fsub(hist.accs[i - 1], FixedDt)
          /\ accumulator = IF hist.accs = <<>> THEN hist.acc0
                           ELSE fsub(hist.accs[Len(hist.accs)], FixedDt)
          /\ hist.steps < MaxStepsPerFrame => accumulator < FixedDt

\* a call with a frame time above 1/15 s that ran into the cap of 8 steps
C2_Witness ==
    /\ hist.op = "simulate" /\ hist.enabled
    /\ hist.dt > MaxFrameDt
    /\ hist.accBefore > 0
    /\ hist.steps = MaxStepsPerFrame

----------------------------------------------------------------------------
(* Physics::step                                                           *)

\* the step of the last PhysicsStep went past the two early returns
StepRan == hist.op = "step" /\ hist.ran

hasId(g, id) == \E i \in 1..Len(g.curves) : g.curves[i].id = id
curveById(g, id) == g.curves[CHOOSE i \in 1..Len(g.curves) : g.curves[i].id = id]

\* the kinds of the events of a step, in order
kindAt(k) == hist.trace[k][1]

\* C3: within one Physics::step the root resync of all curves comes before
\* the integration of any curve, and the relaxation (with its mesh
\* collision) of every curve has finished before applyCurveCurveCollision
\* moves a vertex: the step starts from the resynced roots, and no curve is
\* integrated or relaxed after the curve-curve collision.
C3_RootsFirstCurveCurveLast ==
    StepRan =>
        /\ kindAt(1) = "roots"
        /\ \A k \in 2..Len(hist.trace) : kindAt(k) # "roots"
        /\ hist.afterRoots = updatePinnedRootsFromMesh(hist.pre, mesh)
        /\ \A k \in 1..Len(hist.trace) :
              kindAt(k) = "curvecurve" => k = Len(hist.trace)

\* a step that integrated two curves and then moved vertices in the
\* curve-curve collision
C3_Witness ==
    /\ StepRan
    /\ Cardinality({k \in 1..Len(hist.trace) : kindAt(k) = "relaxed"}) >= 2
    /\ kindAt(Len(hist.trace)) = "curvecurve"

\* curve i of the step's start state, and the same curve object afterwards
preCurve(i) == hist.pre.curves[i]
postCurve(i) == curveById(guides, preCurve(i).id)
unselectedAtStart(i) == hist.pre.selected[i] = 0

\* C4 as stated: a curve that is not selected when Physics::step starts has
\* the same points, prevPoints and segmentRestLen after the step.
C4_UnselectedUnchanged ==
    StepRan =>
        \A i \in 1..Len(hist.pre.curves) :
            unselectedAtStart(i) =>
                /\ hasId(guides, preCurve(i).id)
                /\ postCurve(i).points = preCurve(i).points
                /\ postCurve(i).prevPoints = preCurve(i).prevPoints
                /\ postCurve(i).segmentRestLen = preCurve(i).segmentRestLen

\* C4, amended: a curve that is not selected when Physics::step starts keeps
\* its segmentRestLen and every point and previous point but the root; its
\* root is what updatePinnedRootsFromMesh makes of it (the binding's surface
\* point for a valid binding, the old root otherwise).
C4_UnselectedOnlyRootResynced ==
    StepRan =>
        \A i \in 1..Len(hist.pre.curves) :
            unselectedAtStart(i) =>
                /\ hasId(guides, preCurve(i).id)
                /\ postCurve(i).points = updatePinnedRoot(mesh, preCurve(i)).c.points
                /\ postCurve(i).prevPoints =
                       updatePinnedRoot(mesh, preCurve(i)).c.prevPoints
                /\ Len(postCurve(i).points) = Len(preCurve(i).points)
                /\ \A k \in 2..Len(preCurve(i).points) :
                      /\ postCurve(i).points[k] = preCurve(i).points[k]
                      /\ postCurve(i).prevPoints[k] = preCurve(i).prevPoints[k]
                /\ postCurve(i).segmentRestLen = preCurve(i).segmentRestLen

\* a step that moved a selected curve while another curve was not selected
C4_Witness ==
    /\ StepRan
    /\ \E i \in 1..Len(hist.pre.curves) :
          unselectedAtStart(i) /\ Len(preCurve(i).points) >= 2
    /\ \E j \in 1..Len(hist.pre.curves) :
          /\ ~unselectedAtStart(j)
          /\ hasId(guides, preCurve(j).id)
          /\ postCurve(j).points # preCurve(j).points

\* curve i as the root resync left it
rootedCurve(i) == hist.afterRoots.curves[i]

\* C5: integration, relaxation and the collisions never write points[0] or
\* prevPoints[0]: every curve ends the step with the root and previous root
\* the root resync gave it, and a curve with a binding ends it with
\* points[0] = prevPoints[0].
C5_RootWrittenOnlyByResync ==
    StepRan =>
        \A i \in 1..Len(hist.afterRoots.curves) :
            (hasId(guides, rootedCurve(i).id) /\ rootedCurve(i).points # <<>>) =>
                /\ curveById(guides, rootedCurve(i).id).points[1] =
                       rootedCurve(i).points[1]
                /\ curveById(guides, rootedCurve(i).id).prevPoints[1] =
                       rootedCurve(i).prevPoints[1]
                /\ curveById(guides, rootedCurve(i).id).root.triIndex >= 0 =>
                       curveById(guides, rootedCurve(i).id).points[1] =
                           curveById(guides, rootedCurve(i).id).prevPoints[1]

\* a step that moved a point of a selected curve bound to the mesh
C5_Witness ==
    /\ StepRan
    /\ \E i \in 1..Len(hist.afterRoots.curves) :
          /\ ~unselectedAtStart(i)
          /\ rootedCurve(i).root.triIndex >= 0
          /\ hasId(guides, rootedCurve(i).id)
          /\ curveById(guides, rootedCurve(i).id).points # rootedCurve(i).points

\* C6: while vertex v of curve c is dragged, a Physics::step leaves
\* points[v] of curve c unchanged and ends with prevPoints[v] = points[v].
C6_DraggedVertexHeld ==
    (/\ StepRan
     /\ hist.drag.dragging
     /\ hist.drag.curve >= 0 /\ hist.drag.curve < Len(hist.pre.curves)
     /\ ~unselectedAtStart(hist.drag.curve + 1)
     /\ hist.drag.vert >= 1
     /\ hist.drag.vert < Len(preCurve(hist.drag.curve + 1).points)
     /\ hasId(guides, preCurve(hist.drag.curve + 1).id)) =>
        /\ postCurve(hist.drag.curve + 1).points[hist.drag.vert + 1] =
               preCurve(hist.drag.curve + 1).points[hist.drag.vert + 1]
        /\ postCurve(hist.drag.curve + 1).prevPoints[hist.drag.vert + 1] =
               postCurve(hist.drag.curve + 1).points[hist.drag.vert + 1]

\* the last operation was a call of updatePinnedRootsFromMesh
Resynced == hist.op = "updatePinnedRootsFromMesh"
\* curve i had a binding at or past the triangle count of the mesh
outOfRange(i) == hist.pre.curves[i].root.triIndex >= TriCount(mesh)
\* curve i left the call unpinned, with its points as they were
unpinnedInPlace(i) ==
    /\ guides.curves[i].root.triIndex = -1
    /\ guides.curves[i].points = hist.pre.curves[i].points
    /\ guides.curves[i].prevPoints = hist.pre.curves[i].prevPoints

surfacePoint(m, root) ==
    baryPoint(Pos(m, Ind(m, root.triIndex, 0)), Pos(m, Ind(m, root.triIndex, 1)),
              Pos(m, Ind(m, root.triIndex, 2)), root.bary)

\* C8: after updatePinnedRootsFromMesh every curve with a point and a valid
\* root.triIndex has points[0] = prevPoints[0] = the combination of the
\* triangle's vertices with the stored barycentric triple.
C8_RootAtStoredBarycentric ==
    StepRan =>
        \A i \in 1..Len(hist.afterRoots.curves) :
            (/\ rootedCurve(i).points # <<>>
             /\ triValid(mesh, rootedCurve(i).root.triIndex)
             /\ vertsValid(mesh, rootedCurve(i).root.triIndex)) =>
                /\ rootedCurve(i).points[1] = rootedCurve(i).prevPoints[1]
                /\ rootedCurve(i).points[1] = surfacePoint(mesh, rootedCurve(i).root)

\* C9: in every reachable state every curve with root.triIndex >= 0 stores
\* barycentric components in [0, 1] that sum to 1.
C9_StoredBarycentricNormalized ==
    \A i \in 1..Len(guides.curves) :
        guides.curves[i].root.triIndex >= 0 =>
            /\ \A k \in 1..3 : /\ guides.curves[i].root.bary[k] >= 0
                               /\ guides.curves[i].root.bary[k] <= BaryOne
            /\ guides.curves[i].root.bary[1] + guides.curves[i].root.bary[2]
                 + guides.curves[i].root.bary[3] = BaryOne

----------------------------------------------------------------------------
(* HairGuideSet::addCurveOnMesh                                            *)

\* the curve a successful call appended
addedCurve == guides.curves[hist.ret + 1]

\* C10: a call of addCurveOnMesh that returns an index >= 0 has appended
\* one unselected curve whose points and prevPoints both have
\* clamp(defaultSteps, 2, 256) entries, with prevPoints[i] == points[i] for
\* every i (zero initial velocity) and, when the curve is bound, points[0]
\* at the bound surface point; a call that returns -1 was given a
\* non-finite hit position or normal and leaves the curves and the
\* selection flags as they were.
C10_AddCurveContract ==
    hist.op = "addCurveOnMesh" =>
        IF hist.ret >= 0
        THEN /\ hist.ret = Len(hist.pre.curves)
             /\ Len(guides.curves) = Len(hist.pre.curves) + 1
             /\ Len(guides.selected) = Len(guides.curves)
             /\ SubSeq(guides.curves, 1, hist.ret) = hist.pre.curves
             /\ SubSeq(guides.selected, 1, hist.ret) = hist.pre.selected
             /\ guides.selected[hist.ret + 1] = 0
             /\ Len(addedCurve.points) = Clamp(hist.steps, MinCurveSteps, MaxCurveSteps)
             /\ Len(addedCurve.prevPoints) = Len(addedCurve.points)
             /\ \A i \in 1..Len(addedCurve.points) :
                   VSub(addedCurve.prevPoints[i], addedCurve.points[i]) = ZeroVec
             /\ addedCurve.root.triIndex >= 0 =>
                   VSub(addedCurve.points[1], surfacePoint(mesh, addedCurve.root)) = ZeroVec
        ELSE /\ hist.ret = -1
             /\ ~VFinite(hist.hitPos) \/ ~VFinite(hist.hitNormal)
             /\ guides = hist.pre

----------------------------------------------------------------------------
(* The curve list                                                          *)

\* C11: in every state reached by curve creation, dragging a control
\* point, resampling, solver steps, scene loads and PLY imports, every
\* curve has as many prevPoints as points.
C11_PointsAndPrevSameSize ==
    \A i \in 1..Len(guides.curves) :
        Len(guides.curves[i].points) = Len(guides.curves[i].prevPoints)

\* a resampling has changed the number of points of a curve
C11_Witness ==
    /\ hist.op = "applyLengthStepsToSelected"
    /\ \E i \in 1..Len(guides.curves) :
           Len(guides.curves[i].points) # Len(hist.pre.curves[i].points)


----------------------------------------------------------------------------
(* Physics::step: curves with non-finite positions *)

\* the curve at index i (1-based) when the step started
startCurve(i) == hist.pre.curves[i]
\* it was selected, had two points or more, and one of them was NaN or Inf
startedInvalid(i) ==
    /\ isCurveSelected(hist.pre, i - 1)
    /\ Len(startCurve(i).points) >= 2
    /\ hasInvalid(startCurve(i))

\* C12: when Physics::step returns, every selected curve with two points or
\* more that had a non-finite position when the step started is gone from
\* the curve list, the list of selection flags is as long as the curve
\* list, and every curve whose positions were all finite is still there.
C12_NonFiniteCurvesDropped ==
    hist.op = "step" =>
        /\ Len(guides.selected) = Len(guides.curves)
        /\ \A i \in 1..Len(hist.pre.curves) :
               /\ startedInvalid(i) => ~hasId(guides, startCurve(i).id)
               /\ ~hasInvalid(startCurve(i)) => hasId(guides, startCurve(i).id)

----------------------------------------------------------------------------
(* Scene::tick *)

\* at least two points and a total polyline length above 1e-6
properCurve(c) == Len(c.points) >= 2 /\ Lt(Tiny - 1, polylineLength(c.points, 1))

\* C13: after Scene::tick returns, every curve still in the list has at
\* least two points and a total polyline length greater than 1e-6, and the
\* curves that had both before the call are all still there, unchanged and
\* in the same order.
C13_TickLeavesProperCurves ==
    hist.op = "tick" =>
        /\ \A i \in 1..Len(guides.curves) : properCurve(guides.curves[i])
        /\ SelectSeq(hist.pre.curves, properCurve) = SelectSeq(guides.curves, properCurve)

----------------------------------------------------------------------------
(* Physics::step: the mesh collision of one point *)

\* the tolerance of the comparison: the resolution of the model's lengths
CollideEps == Tiny
\* the point the sub-pass examined, and what nearestTriangle answered for it
examinedPoint == hist.pre.curves[hist.curve + 1].points[hist.point + 1]
examinedNear ==
    nearestTriangle(mesh, cache.meshBvh, examinedPoint,
                    Max2(Tiny, gs.collisionThickness) * 2)
\* the point after the sub-pass
pushedPoint == guides.curves[hist.curve + 1].points[hist.point + 1]
\* it was closer to the closest point of its nearest triangle than the
\* thickness
examinedClose ==
    /\ hist.op = "collidePoint"
    /\ examinedNear.found
    /\ Lt(Length(VSub(examinedPoint, examinedNear.cp)), Max2(Tiny, gs.collisionThickness))

\* C14: a non-root point of a selected curve that the mesh-collision
\* sub-pass finds closer than the thickness to the closest point of its
\* nearest triangle is, directly after the push-out, at a distance of at
\* least thickness - epsilon from that same closest point, whether the
\* parity test called it inside or outside.
C14_PushedOutToThickness ==
    examinedClose =>
        Le(Max2(Tiny, gs.collisionThickness) - CollideEps,
           Length(VSub(pushedPoint, examinedNear.cp)))

----------------------------------------------------------------------------
(* Physics::applyCurveCurveCollision at the end of a step *)

\* one solver tick with curve collision enabled has run
collidedStep == hist.op = "step" /\ gs.enableCurveCollision
\* the non-root vertices i of curve a and k of curve b (1-based indices of
\* two different selected curves) are at least thickness apart, within
\* the resolution of the model
apartAt(a, b, i, k) ==
    Le(Max2(Tiny, gs.collisionThickness) - CollideEps,
       Length(VSub(guides.curves[b].points[k], guides.curves[a].points[i])))
\* the root of every curve is where the curve loop left it
rootsKept ==
    \A a \in 1..Len(guides.curves) :
        guides.curves[a].points # <<>> =>
            guides.curves[a].points[1] =
                curveById(hist.afterRoots, guides.curves[a].id).points[1]

\* the non-root vertices (curve, point), 1-based, of the selected curves of
\* g whose position is finite
freeVerts(g) ==
    {v \in UNION {{<<a, i>> : i \in 2..Len(g.curves[a].points)} :
                      a \in 1..Len(g.curves)} :
        /\ isCurveSelected(g, v[1] - 1)
        /\ VFinite(g.curves[v[1]].points[v[2]])}
gapIn(g, v, w) == Length(VSub(g.curves[w[1]].points[w[2]], g.curves[v[1]].points[v[2]]))
\* the vertices of other curves within twice the thickness of v
nearVerts(g, v) ==
    {w \in freeVerts(g) :
        w[1] # v[1] /\ Le(gapIn(g, v, w), 2 * Max2(Tiny, gs.collisionThickness))}
\* when the pass starts no two vertices of different curves coincide and
\* no vertex has two such neighbours
sparseVerts(g) ==
    \A v \in freeVerts(g) :
        /\ Cardinality(nearVerts(g, v)) <= 1
        /\ \A w \in nearVerts(g, v) :
               g.curves[w[1]].points[w[2]] # g.curves[v[1]].points[v[2]]

\* C15, amended: with curve collision enabled, after one solver tick the
\* root of every curve is the same as before the curve-curve pass, and
\* every pair of finite non-root vertices of two different selected curves
\* is at distance >= collisionThickness, within tolerance, provided that
\* when the pass started no two such vertices coincided and none had more
\* than one such vertex of another curve within twice the thickness.
C15_SparsePairsSeparated ==
    collidedStep =>
        /\ rootsKept
        /\ sparseVerts(hist.afterLoop) =>
               \A v \in freeVerts(guides), w \in freeVerts(guides) :
                   v[1] < w[1] => apartAt(v[1], w[1], v[2], w[2])

\* a step whose curve-curve pass, started on such vertices, moved a pair
C15_Witness ==
    /\ collidedStep
    /\ sparseVerts(hist.afterLoop)
    /\ hist.trace[Len(hist.trace)] = <<"curvecurve", 0>>
    /\ guides # hist.afterLoop

\* C15 as stated: with curve collision enabled, after one solver tick every
\* pair of non-root vertices of two different selected curves is at
\* distance >= collisionThickness, within tolerance, for any number of
\* curves and vertices, and the root of every curve is the same as before
\* the curve-curve pass.
C15_CurvesSeparated ==
    collidedStep =>
        /\ rootsKept
        /\ \A a \in 1..Len(guides.curves), b \in 1..Len(guides.curves) :
               (a < b /\ isCurveSelected(guides, a - 1) /\ isCurveSelected(guides, b - 1)) =>
                   \A i \in 2..Len(guides.curves[a].points),
                      k \in 2..Len(guides.curves[b].points) : apartAt(a, b, i, k)

----------------------------------------------------------------------------
(* Bvh::build *)

\* the index the mesh was built into
builtBvh == cache.meshBvh
\* an index was built for the mesh, which has T >= 1 triangles
builtForMesh == cache.cachedMesh = mesh.addr /\ TriCount(mesh) >= 1
isLeaf(n) == n.left < 0 /\ n.right < 0
\* the leaves of the tree
leavesOf(b) == {i \in 1..Len(b.nodes) : isLeaf(b.nodes[i])}
\* the positions [firstTri, firstTri + triCount) of a leaf
leafRange(n) == n.firstTri..(n.firstTri + n.triCount - 1)
RECURSIVE subtreeTris(_, _)
\* the triangles below node ni (0-based)
subtreeTris(b, ni) ==
    IF isLeaf(b.nodes[ni + 1]) THEN Range(leafTris(b, b.nodes[ni + 1]))
    ELSE subtreeTris(b, b.nodes[ni + 1].left) \cup subtreeTris(b, b.nodes[ni + 1].right)
\* the box of node n contains the bounds of triangle t
boxHolds(n, t) ==
    /\ \A k \in 1..3 : n.bmin[k] <= triBounds(mesh, t).min[k]
    /\ \A k \in 1..3 : triBounds(mesh, t).max[k] <= n.bmax[k]

\* C16: after Bvh::build on a mesh with T >= 1 triangles the permuted index
\* array is a permutation of 0..T-1, the leaf ranges partition [0, T) (so
\* every triangle is in exactly one leaf), every leaf holds 1 to 8
\* triangles, and the box of every node contains the bounds of all the
\* triangles of its subtree; the subtree of the root is the whole mesh.
C16_BvhStructure ==
    builtForMesh =>
        /\ Len(builtBvh.tri) = TriCount(mesh)
        /\ Range(builtBvh.tri) = 0..(TriCount(mesh) - 1)
        /\ \A k \in 0..(TriCount(mesh) - 1) :
               Cardinality({i \in leavesOf(builtBvh) : k \in leafRange(builtBvh.nodes[i])}) = 1
        /\ \A i \in leavesOf(builtBvh) :
               /\ builtBvh.nodes[i].triCount >= 1
               /\ builtBvh.nodes[i].triCount <= LeafSize
               /\ leafRange(builtBvh.nodes[i]) \subseteq 0..(TriCount(mesh) - 1)
        /\ \A i \in 1..Len(builtBvh.nodes) :
               \A t \in subtreeTris(builtBvh, i - 1) : boxHolds(builtBvh.nodes[i], t)
        /\ subtreeTris(builtBvh, 0) = 0..(TriCount(mesh) - 1)

\* a tree with two levels of splits has been built
C16_Witness ==
    /\ builtForMesh
    /\ Len(builtBvh.nodes) >= 7
    /\ ~isLeaf(builtBvh.nodes[2])

----------------------------------------------------------------------------
(* Bvh::nearestTriangle *)

\* the squared distance from p to triangle t of the mesh, as a scan over
\* all triangles computes it
triDistSq(p, t) ==
    distSqTo(p, closestPointOnTriangle(p, Pos(mesh, Ind(mesh, t, 0)),
                                       Pos(mesh, Ind(mesh, t, 1)),
                                       Pos(mesh, Ind(mesh, t, 2))))
\* maxDist * maxDist
maxDistSq(maxDist) == IF maxDist = PosInf THEN PosInf ELSE maxDist * maxDist
\* the triangles the scan finds closer to p than maxDist
bruteWithin(p, maxDist) ==
    {t \in 0..(TriCount(mesh) - 1) : Lt(triDistSq(p, t), maxDistSq(maxDist))}
\* nearestTriangle was called on an index built for the mesh
nearestAsked == hist.op = "nearestTriangle" /\ cache.cachedMesh = mesh.addr

\* C17: on a built mesh nearestTriangle returns true exactly when a scan
\* over all triangles finds one closer to p than maxDist, and then the
\* triangle returned is one of those, the point returned is its closest
\* point to p, and no triangle of the mesh is closer to p.
C17_NearestMatchesBruteForce ==
    nearestAsked =>
        /\ hist.ret.found <=> bruteWithin(hist.p, hist.maxDist) # {}
        /\ hist.ret.found =>
               /\ hist.ret.tri \in bruteWithin(hist.p, hist.maxDist)
               /\ distSqTo(hist.p, hist.ret.cp) = triDistSq(hist.p, hist.ret.tri)
               /\ \A t \in 0..(TriCount(mesh) - 1) :
                      ~Lt(triDistSq(hist.p, t), distSqTo(hist.p, hist.ret.cp))

\* a triangle was found in a tree with two levels of splits while other
\* triangles of the mesh were farther away than maxDist
C17_Witness ==
    /\ nearestAsked
    /\ hist.ret.found
    /\ Len(cache.meshBvh.nodes) >= 7
    /\ bruteWithin(hist.p, hist.maxDist) # 0..(TriCount(mesh) - 1)

\* the mesh has no triangle
noTriangles == TriCount(mesh) = 0
\* an index was built for the mesh, which has no triangle
builtForEmpty == cache.cachedMesh = mesh.addr /\ noTriangles
\* the node buildNode(0, 0) pushes: a leaf over no triangle, with the box the
\* loop starts from
emptyLeaf ==
    [bmin |-> <<PosInf, PosInf, PosInf>>, bmax |-> <<NegInf, NegInf, NegInf>>,
     left |-> -1, right |-> -1, firstTri |-> 0, triCount |-> 0]
\* what the queries give on a mesh without triangles
emptyQueries ==
    /\ hist.op = "raycast" => hist.calls = <<>>
    /\ hist.op = "nearestTriangle" => ~hist.ret.found
    /\ hist.op = "raycastMesh" =>
           /\ hist.ret = FALSE
           /\ hist.outHit.hit = FALSE
           /\ hist.outHit.triIndex = -1

\* C18: after Bvh::build on a mesh with zero triangles the tree holds one
\* node, a leaf over no triangle with no children, and no triangle index;
\* on such a mesh Bvh::raycast makes no callback, nearestTriangle returns
\* false and Raycast::raycastMesh returns false with outHit.hit false and
\* triIndex -1, whether the index was built or not.
C18_EmptyMeshQueriesFindNothing ==
    noTriangles =>
        /\ emptyQueries
        /\ builtForEmpty =>
               /\ builtBvh.nodes = <<emptyLeaf>>
               /\ builtBvh.tri = <<>>

\* a ray was sent through the index built for a mesh without triangles
C18_Witness ==
    /\ builtForEmpty
    /\ Len(builtBvh.nodes) = 1
    /\ hist.op = "raycast"

\* C18 as stated: the tree built for a mesh with zero triangles holds no
\* node, and the queries find nothing
C18_EmptyMeshEmptyTree ==
    noTriangles =>
        /\ emptyQueries
        /\ builtForEmpty => builtBvh.nodes = <<>>

\* the tree Physics::step keeps is the one Bvh::build gives for the mesh of
\* the scene
treeOfSceneMesh == cache.meshBvh = build(mesh)

\* C19: in every Physics::step that runs, the index is rebuilt exactly when
\* the index kept from the previous step is not the one of the scene's
\* mesh, and the index the step queries is built from the scene's mesh.
C19_BvhCacheCoherent ==
    [][(hist'.op = "step" /\ hist'.ran) =>
           /\ hist'.rebuilt <=> ~treeOfSceneMesh
           /\ treeOfSceneMesh']_vars

\* applyLengthStepsToSelected has been applied
resampled == hist.op = "applyLengthSteps"
\* clamp(newSteps, 2, 256) and max(0.001, newLength) of the call
askedSteps == Clamp(hist.newSteps, MinCurveSteps, MaxCurveSteps)
askedLength == Max2(Tiny, hist.newLength)
\* curve i (1-based) was selected and had at least two points
wasResampled(i) ==
    /\ isCurveSelected(hist.pre, i - 1)
    /\ Len(hist.pre.curves[i].points) >= 2
\* curve c is old, resampled as the call asked
resampledAsAsked(c, old) ==
    /\ c.id = old.id
    /\ c.root = old.root
    /\ c.points[1] = old.points[1]
    /\ Len(c.points) = askedSteps
    /\ Len(c.prevPoints) = askedSteps
    /\ c.prevPoints = c.points
    /\ c.segmentRestLen = IF askedLength = PosInf THEN PosInf
                          ELSE RDiv(askedLength, Len(c.points) - 1)

moved == hist.op = "moveControlPoint"
\* the call named a curve of the list, a vertex of it other than the root,
\* and a finite position
moveValid ==
    /\ hist.curve >= 0 /\ hist.curve < Len(hist.pre.curves)
    /\ hist.vert >= 1 /\ hist.vert < Len(hist.pre.curves[hist.curve + 1].points)
    /\ VFinite(hist.worldPos)
\* the curve c with point and prevPoint i (0-based) put at p
withPointAt(c, i, p) ==
    [c EXCEPT !.points[i + 1] = p, !.prevPoints[i + 1] = p]

\* C21: moveControlPoint with a valid curve index, 1 <= vertIdx < point
\* count and a finite worldPos sets points[vertIdx] and prevPoints[vertIdx]
\* to worldPos and changes nothing else; with any other arguments it leaves
\* the whole curve set as it was.
C21_MoveControlPoint ==
    moved =>
        IF moveValid
        THEN guides = [hist.pre EXCEPT !.curves[hist.curve + 1] =
                          withPointAt(@, hist.vert, hist.worldPos)]
        ELSE guides = hist.pre

\* a vertex of the second of several curves was moved to a new place
C21_Witness ==
    /\ moved /\ moveValid
    /\ hist.curve = 1
    /\ guides # hist.pre
    /\ guides.curves[2].points[hist.vert + 1] = hist.worldPos

\* the rounding of one correction on the model's grid
StretchEps == Tiny
\* the length of the first segment of curve c
firstSegment(c) == Length(VSub(c.points[2], c.points[1]))
\* the segment length of c is its rest length, within the rounding
atRestLength(c) ==
    /\ firstSegment(c) - c.segmentRestLen <= StretchEps
    /\ c.segmentRestLen - firstSegment(c) <= StretchEps
\* a solver step has run on the one curve of two points, which was at rest
\* (prevPoints equal to points) when the step began
stretched ==
    /\ hist.op = "step"
    /\ Len(guides.curves) = 1
    /\ hist.pre.curves[1].prevPoints = hist.pre.curves[1].points
\* the free end started on the root
startedOnRoot == hist.pre.curves[1].points[2] = hist.pre.curves[1].points[1]

\* C22: after a solver step on a selected curve of two points with pinned
\* root, no gravity, no velocity and no collision, the segment is as long as
\* segmentRestLen, wherever the free end started.
C22_StretchConverges ==
    stretched => atRestLength(guides.curves[1])

\* the selection flag of the curve with this id
flagById(g, id) ==
    g.selected[CHOOSE i \in 1..Len(g.curves) : g.curves[i].id = id]
\* the binding went from t to u: it stayed, or a triangle was given up
bindingStep(t, u) == u = t \/ (t >= 0 /\ u = -1)
\* Physics::step or updatePinnedRootsFromMesh has run
solverRan == hist.op \in {"step", "updatePinnedRootsFromMesh"}
\* removeCurve has run with the index of a curve
removedOne ==
    /\ hist.op = "removeCurve"
    /\ hist.curve >= 0 /\ hist.curve < Len(hist.pre.curves)

\* C23: Physics::step and updatePinnedRootsFromMesh add no curve, leave the
\* binding of every curve that stays as it was or turn a triangle index
\* (>= 0) into -1, and leave its selection flag as it was; removeCurve with
\* the index of a curve removes that curve, whatever its binding and its
\* selection flag.
C23_BindingOnlyGivenUp ==
    /\ solverRan =>
           \A i \in 1..Len(guides.curves) :
               /\ hasId(hist.pre, guides.curves[i].id)
               /\ bindingStep(curveById(hist.pre, guides.curves[i].id).root.triIndex,
                              guides.curves[i].root.triIndex)
               /\ guides.selected[i] = flagById(hist.pre, guides.curves[i].id)
    /\ removedOne =>
           /\ Len(guides.curves) = Len(hist.pre.curves) - 1
           /\ ~hasId(guides, hist.pre.curves[hist.curve + 1].id)

\* a step unpinned a selected curve bound past the triangles of the mesh
\* and kept it in the list
C23_Witness ==
    /\ hist.op = "step"
    /\ \E i \in 1..Len(guides.curves) :
           /\ guides.selected[i] # 0
           /\ guides.curves[i].root.triIndex = -1
           /\ curveById(hist.pre, guides.curves[i].id).root.triIndex >= 0

\* the guard has run on a curve
guarded == hist.op = "guard"
guardedBefore == hist.pre.curves[hist.curve + 1]
guardedAfter == guides.curves[hist.curve + 1]
\* 50 m/s * dt for the dt of a solver step
guardCeiling == RDiv(MaxReasonableSpeed * ticks(FixedDt), TicksPerSecond)
\* the displacement of point i (1-based) of curve c
dispOf(c, i) == VSub(c.points[i], c.prevPoints[i])
\* the displacement is not finite or longer than the ceiling
overCeiling(dp) == ~VFinite(dp) \/ Lt(guardCeiling, Length(dp))
\* prevPoints[i] was missing or had such a displacement
wasCorrupt(c, i) ==
    Len(c.prevPoints) # Len(c.points) \/ overCeiling(dispOf(c, i))

\* C24: the guard at the start of a selected curve's step leaves every
\* points[i] and every other curve as they were, sets prevPoints[i] to
\* points[i] where the displacement points[i] - prevPoints[i] was not finite
\* or longer than 50 m/s * dt and leaves it elsewhere; after it every point
\* of a curve with finite positions has a finite displacement no longer
\* than 50 m/s * dt.
C24_GuardKillsCorruptVelocities ==
    guarded =>
        /\ guides = [hist.pre EXCEPT !.curves[hist.curve + 1].prevPoints =
                         guardedAfter.prevPoints]
        /\ Len(guardedAfter.prevPoints) = Len(guardedBefore.points)
        /\ \A i \in 1..Len(guardedBefore.points) :
               guardedAfter.prevPoints[i] =
                   IF wasCorrupt(guardedBefore, i) THEN guardedBefore.points[i]
                   ELSE guardedBefore.prevPoints[i]
        /\ ~hasInvalid(guardedAfter) =>
               \A i \in 1..Len(guardedAfter.points) :
                   ~overCeiling(dispOf(guardedAfter, i))

\* on a curve of finite points the guard reset one point, whose prevPoint
\* was not finite, and kept the small displacement of another
C24_Witness ==
    /\ guarded
    /\ ~hasInvalid(guardedAfter)
    /\ Len(guardedBefore.prevPoints) = Len(guardedBefore.points)
    /\ \E i, j \in 1..Len(guardedAfter.points) :
           /\ ~VFinite(guardedBefore.prevPoints[i])
           /\ guardedAfter.prevPoints[i] = guardedAfter.points[i]
           /\ guardedAfter.prevPoints[j] # guardedAfter.points[j]

\* C25: in every reachable state every curve with at least 2 points has
\* segmentRestLen > 0.
C25_RestLengthPositive ==
    \A i \in 1..Len(guides.curves) :
        Len(guides.curves[i].points) >= 2 => Lt(0, guides.curves[i].segmentRestLen)

\* C26: in every reachable state where isDragging() is true, dragCurve is
\* the index of an existing curve and 1 <= dragVert < that curve's point
\* count.
C26_DragStateValid ==
    drag.dragging =>
        /\ drag.curve >= 0 /\ drag.curve < curveCount(guides)
        /\ drag.vert >= 1
        /\ drag.vert < Len(guides.curves[drag.curve + 1].points)

\* how often the step integrated and relaxed the curve with this identity
timesIntegrated(id) ==
    Cardinality({k \in 1..Len(hist.trace) : hist.trace[k] = <<"integrate", id>>})
timesRelaxed(id) ==
    Cardinality({k \in 1..Len(hist.trace) : hist.trace[k] = <<"relaxed", id>>})
\* curve i was selected, had two points or more and only finite positions
\* when the step started
startedProper(i) ==
    /\ isCurveSelected(hist.pre, i - 1)
    /\ Len(startCurve(i).points) >= 2
    /\ ~hasInvalid(startCurve(i))

\* C27: in one Physics::step every selected curve that has two points or
\* more and only finite positions is integrated and relaxed exactly once,
\* also when other curves are removed as corrupted earlier in the step.
C27_ProcessedExactlyOnce ==
    hist.op = "step" =>
        \A i \in 1..Len(hist.pre.curves) :
            startedProper(i) =>
                /\ timesIntegrated(startCurve(i).id) = 1
                /\ timesRelaxed(startCurve(i).id) = 1

\* what a call of Scene::simulate adds to the sum of clamp(dt, 0, 1/15 s)
\* over the calls made while simulation was enabled
addedTime == IF hist.enabled THEN Clamp(hist.dt, 0, MaxFrameDt) ELSE 0

\* C28: on return from every call of Scene::simulate the accumulator
\* satisfies 0 <= accumulator < 1/120 s, and the solver steps run times
\* 1/120 s plus the accumulator equal the sum of clamp(dt, 0, 1/15 s) over
\* the enabled calls: each call adds as much to the one as to the other.
C28_AccumulatorBound ==
    hist.op = "simulate" =>
        /\ 0 <= accumulator /\ accumulator < FixedDt
        /\ hist.steps * FixedDt + accumulator = hist.accBefore + addedTime

\* no flag of the selection array is set
noneSelected(g) == \A i \in 1..Len(g.selected) : g.selected[i] = 0
\* activeCurve() is the index of an existing curve that is selected
activeIsSelected(g) ==
    /\ g.active >= 0 /\ g.active < curveCount(g)
    /\ isCurveSelected(g, g.active)
\* removeCurve has removed a curve below the active one
removedBelowActive ==
    /\ hist.op = "removeCurve"
    /\ hist.curve >= 0 /\ hist.curve < hist.pre.active

\* C29: after any sequence of addCurveOnMesh, selectCurve,
\* toggleCurveSelected, deselectAll, removeCurve, removeCurves and clear,
\* activeCurve() is -1 exactly when no curve is selected, and otherwise the
\* index of an existing curve that is selected; removing a curve with a
\* smaller index keeps activeCurve() on the same curve object.
C29_ActiveCurveInvariant ==
    /\ (guides.active = -1) <=> noneSelected(guides)
    /\ guides.active # -1 => activeIsSelected(guides)
    /\ removedBelowActive =>
           /\ activeIsSelected(guides)
           /\ guides.curves[guides.active + 1].id =
                  hist.pre.curves[hist.pre.active + 1].id

\* the first curve, selected, was removed while the second was the active
\* one
C29_Witness ==
    /\ removedBelowActive
    /\ hist.pre.active = 1
    /\ hist.pre.selected[1] # 0
    /\ hist.curve = 0
    /\ guides.active = 0

\* removeCurve has been called with the index of a curve
removedValid ==
    /\ hist.op = "removeCurve"
    /\ hist.curve >= 0 /\ hist.curve < curveCount(hist.pre)
\* where entry k (1-based) of the lists after removeCurve(i) was before
beforeRemoval(k) == IF k <= hist.curve THEN k ELSE k + 1

\* C30: after any sequence of addCurveOnMesh, removeCurve, removeCurves,
\* clear and selection calls the selection-flag array has as many entries
\* as there are curves; removeCurve(i) with a valid i removes exactly curve
\* i and its flag, every other curve keeping its flag and its place in the
\* order; removeCurve with an index out of range changes nothing.
C30_SelectionAligned ==
    /\ Len(guides.selected) = Len(guides.curves)
    /\ removedValid =>
           /\ Len(guides.curves) = Len(hist.pre.curves) - 1
           /\ \A k \in 1..Len(guides.curves) :
                  /\ guides.curves[k] = hist.pre.curves[beforeRemoval(k)]
                  /\ guides.selected[k] = hist.pre.selected[beforeRemoval(k)]
    /\ (hist.op = "removeCurve" /\ ~removedValid) => guides = hist.pre

\* the middle one of three curves was removed, the last being selected and
\* the first not
C30_Witness ==
    /\ removedValid
    /\ hist.curve = 1
    /\ Len(hist.pre.curves) = 3
    /\ hist.pre.selected[1] = 0 /\ hist.pre.selected[3] # 0
    /\ guides.selected = <<0, 1>>
====
